---- MODULE Spec2Model ----
(***************************************************************************)
(* rs-ansible: the batch execution fabric (manager.rs), the playbook       *)
(* runner (executor.rs) and the verified file transfer (ssh/).             *)
(*                                                                         *)
(* SpecBatch models one call of AnsibleManager::execute_concurrent_-       *)
(* operation at the granularity of the tokio tasks it spawns: the spawn    *)
(* loop, every worker's acquire / session / operation / finish steps and   *)
(* the join loop interleave freely.                                        *)
(*                                                                         *)
(* SpecPlaybook models TaskExecutor::execute_playbook, one action per      *)
(* iteration of its task loop; a task's fan-out is the fold               *)
(* ExecuteConcurrentOperation, which SpecBatch shows to be the result of   *)
(* every interleaving (BatchIsFold).                                       *)
(*                                                                         *)
(* SpecLongPlaybook is the same runner on longer playbooks over fewer      *)
(* task shapes.                                                            *)
(*                                                                         *)
(* SpecSerial composes the two: execute_playbook with every fan-out of     *)
(* every task run step by step.                                            *)
(*                                                                         *)
(* SpecDeploy models one call of SshClient::copy_file_to_remote_with_-     *)
(* options (ssh/file_transfer.rs), one action per remote command, with     *)
(* the session and the process failing at any step.                        *)
(*                                                                         *)
(* SpecRedeploy is SpecDeploy with the call made a second time on the      *)
(* state the first call left.  SpecShell is SpecSerial on playbooks of     *)
(* Shell tasks.                                                            *)
(*                                                                         *)
(* SpecTemplate models SshClient::deploy_template (ssh/template.rs), one   *)
(* action per remote command, called once and then once more.              *)
(*                                                                         *)
(* SpecSuffix models generate_temp_suffix (utils.rs) on a clock that may   *)
(* stand still between readings; SpecTempFiles the temp file names of      *)
(* concurrent workers of one batch, for templates and for file copies.     *)
(*                                                                         *)
(* SpecUser models SshClient::manage_user (ssh/user.rs) with the command   *)
(* line passed through the remote shell's word splitting and the passwd    *)
(* entry parsed back.  SpecConnect models the retry loop of SshClient::new *)
(* (ssh/client.rs).                                                        *)
(*                                                                         *)
(* SpecAttributes is SpecDeploy over every combination of the mode, owner  *)
(* and group options.  SpecBatchFair is SpecBatch with the fairness of the *)
(* tokio runtime and of its semaphore.  SpecExit is SpecSerial on Command  *)
(* and Ping tasks whose remote command may end with a non-zero exit        *)
(* status.  The Shell task keeps a history of its script files, local and  *)
(* remote.                                                                 *)
(***************************************************************************)
EXTENDS Naturals, Integers, Sequences, FiniteSets, TLC

VARIABLES
    \* ---- one call of execute_concurrent_operation (manager.rs) ----
    host_names,                 \* the host list passed in
    max_concurrent_connections, \* AnsibleManager.max_concurrent_connections
    permits,                    \* permits left in the semaphore
    bpc,                        \* position of the caller: "idle", "spawn", "join", "done"
    spawn_i,                    \* index of the spawn loop in host_names
    handles,                    \* Vec of JoinHandles: the worker indices, in spawn order
    join_i,                     \* index of the join loop in handles
    wpc,                        \* worker i's position
    wout,                       \* worker i's return value (host_name, op_result)
    result,                     \* the BatchResult under construction
    \* ---- one call of execute_playbook (executor.rs) ----
    tasks,                      \* playbook.tasks
    task_i,                     \* index of the task loop
    failed_hosts,               \* HashSet<String> of execute_playbook
    task_results,               \* Vec<(task, TaskResult)>
    overall_success,
    ppc,                        \* "run", "break", "ok" / "err" (returned), or a fan-out in flight
    skipped_hosts,              \* PlaybookResult.skipped_hosts
    playbook_err,               \* the Err(e) execute_playbook returned, once ppc = "err"
    trace,                      \* per executed task: what execute_task did (history)
    \* ---- execute_playbook with its fan-outs run step by step ----
    batch_result,               \* Shell: the result of the execute fan-out, kept during cleanup
    unfinished,                 \* workers still running when a later fan-out began (history)
    \* ---- one call of copy_file_to_remote_with_options (ssh/file_transfer.rs) ----
    local_file,                 \* the bytes of the file at local_path
    options,                    \* FileCopyOptions: precomputed_hash, backup, create_dirs
    remote_fs,                  \* the remote files: remote_path, the staging path, the backup
    dest_before,                \* the file at remote_path when the call began (history)
    dpc,                        \* position in the function; "returned", "dead"
    local_hash_info,            \* FileHashInfo of phase 1
    session,                    \* the SSH session: "up" or "down"
    deploy_result,              \* the Result the call returned
    commands,                   \* what was done on the remote host, in order (history)
    \* ---- the calls of the same function before the current one ----
    earlier_calls,              \* the Result of each (history)
    \* ---- one call of deploy_template (ssh/template.rs) ----
    rendered_content,           \* what render_template makes of the template and the variables
    template_options,           \* TemplateOptions: backup, validate; dest has a parent directory
    template_remote,            \* the remote files: dest, temp_path, the backup
    local_temp,                 \* the local file at local_temp
    changed,
    tpc,                        \* position in the function; "returned", "dead"
    template_session,           \* the SSH session: "up" or "down"
    template_result,            \* the Result the call returned
    template_commands,          \* what was done on the remote host, in order (history)
    template_dest_before,       \* the file at dest when the call began (history)
    \* ---- the clock, and successive calls of generate_temp_suffix (utils.rs) ----
    now,                        \* what chrono::Utc::now() returns: timestamp, nanos
    suffixes,                   \* the strings returned so far, in order
    \* ---- the temp files of the workers of one batch (template.rs, file_transfer.rs) ----
    operation,                  \* what the batch runs on every host: "template" or "file"
    worker_host,                \* worker i's host
    temp_worker,                \* worker i's position, temp_path, local_temp and Result
    local_files,                \* the paths that exist in the local temp directory
    remote_files,               \* the <<host, path>> that exist on the remote hosts
    \* ---- one call of manage_user (ssh/user.rs) ----
    user_options,               \* UserOptions
    passwd,                     \* the remote host's passwd entry of options.name, if any
    upc,                        \* position in the function; "returned"
    current_info,               \* the UserInfo read before the comparison
    user_result,                \* the Result the call returned
    user_commands,              \* the remote commands run by the call, in order (history)
    user_before,                \* the passwd entry when the call began (history)
    \* ---- one call of SshClient::new (ssh/client.rs) ----
    config,                     \* HostConfig: which credentials are set
    attempt,                    \* the loop variable of the retry loop
    cpc,                        \* position in new / connect_once; "returned"
    last_error,                 \* Option<AnsibleError>
    connect_result,             \* the Result the call returned
    attempts,                   \* the outcome of every connect_once so far (history)
    slept,                      \* the thread::sleep durations so far, in ms (history)
    \* ---- the script files of the Shell tasks (executor.rs) ----
    script_files,               \* the tasks whose local temp script file exists
    remote_scripts,             \* the <<task, host>> whose remote script file exists
    copy_results,               \* per Shell task, the result of its copy fan-out (history)
    script_ran,                 \* the <<task, host>> where the script was run (history)
    \* ---- the remote hosts (ssh/client.rs) ----
    exit_status                 \* per host, the exit status its remote command ends with

bvars == <<host_names, max_concurrent_connections, permits, bpc, spawn_i, handles,
           join_i, wpc, wout, result>>
pvars == <<tasks, task_i, failed_hosts, task_results, overall_success, ppc,
           skipped_hosts, playbook_err, trace>>
svars == <<batch_result, unfinished>>
dvars == <<local_file, options, remote_fs, dest_before, dpc, local_hash_info, session,
           deploy_result, commands>>
rvars == <<earlier_calls>>
tvars == <<rendered_content, template_options, template_remote, local_temp, changed, tpc,
           template_session, template_result, template_commands, template_dest_before>>
gvars == <<now, suffixes>>
wvars == <<operation, worker_host, temp_worker, local_files, remote_files>>
uvars == <<user_options, passwd, upc, current_info, user_result, user_commands, user_before>>
cvars == <<config, attempt, cpc, last_error, connect_result, attempts, slept>>
hvars == <<script_files, remote_scripts, copy_results, script_ran>>
evars == <<exit_status>>
yvars == <<gvars, wvars, uvars, cvars, hvars, evars>>
xvars == <<rvars, tvars, yvars>>
zvars == <<rvars, tvars, gvars, wvars, uvars, cvars, evars>>
not_g == <<bvars, pvars, svars, dvars, rvars, tvars, wvars, uvars, cvars, hvars, evars>>
not_w == <<bvars, pvars, svars, dvars, rvars, tvars, uvars, cvars, hvars, evars>>
not_u == <<bvars, pvars, svars, dvars, tvars, gvars, wvars, cvars, hvars, evars>>
not_c == <<bvars, pvars, svars, dvars, rvars, tvars, gvars, wvars, uvars, hvars, evars>>
vars == <<bvars, pvars, svars, dvars, xvars>>

(***************************************************************************)
(* Bounds and the universe of host ids.                                    *)
(***************************************************************************)
MaxHosts == 3        \* longest host list handed to execute_concurrent_operation
MaxPermits == 2      \* largest max_concurrent_connections tried
MaxTasks == 2        \* longest playbook
MaxFileLen == 2      \* longest file, in bytes
MaxTimestamp == 1    \* latest second the clock reaches
MaxNanos == 1        \* largest sub-second reading of the clock
MaxRandom == 1       \* largest value drawn by rand::random::<u32>()
MaxSuffixes == 3     \* most successive calls of generate_temp_suffix
MaxTempWorkers == 2  \* most workers of one batch that use temp files
MaxWordLen == 2      \* longest home or comment option, in characters

Inventory == {"a", "b"}          \* AnsibleManager.hosts (its key set)
HostIds == Inventory \cup {"u"}  \* "u" is an id that is not in the inventory

RECURSIVE SeqsUpTo(_, _)
SeqsUpTo(S, n) ==
    IF n = 0 THEN {<<>>}
    ELSE LET shorter == SeqsUpTo(S, n - 1)
         IN  shorter \cup {Append(s, x) : s \in shorter, x \in S}

Range(s) == {s[k] : k \in DOMAIN s}

(***************************************************************************)
(* Result<T, AnsibleError> values.                                         *)
(***************************************************************************)
OkValue == [ok |-> TRUE, kind |-> "Ok", msg |-> "", arg |-> ""]
Err(kind, msg, arg) == [ok |-> FALSE, kind |-> kind, msg |-> msg, arg |-> arg]

HostNotFound(host_name) == Err("SshConnectionError", "Host {} not found", host_name)
HostSkipped == Err("SshConnectionError", "Host skipped due to previous failure", "")
OperationErr == Err("Ssh2Error", "operation failed", "")
SessionErrs == {Err("SshConnectionError", "Failed to connect", ""),
                Err("AuthenticationError", "Authentication failed", "")}
NoResult == Err("", "", "")

(***************************************************************************)
(* BatchResult<T>                                                          *)
(***************************************************************************)
BatchResultNew == [results |-> <<>>, successful |-> <<>>, failed |-> <<>>]

AddResult(r, host, res) ==
    [results    |-> [h \in (DOMAIN r.results) \cup {host} |->
                        IF h = host THEN res ELSE r.results[h]],
     successful |-> IF res.ok THEN Append(r.successful, host) ELSE r.successful,
     failed     |-> IF res.ok THEN r.failed ELSE Append(r.failed, host)]

\* success_rate(): 0.0 if results is empty, else successful.len() / results.len(),
\* as the pair <<numerator, denominator>>
SuccessRate(r) ==
    IF DOMAIN r.results = {} THEN <<0, 1>>
    ELSE <<Len(r.successful), Cardinality(DOMAIN r.results)>>

\* a plausible slip: success_rate() >= 0.0
SuccessRateNotNegative(r) == TRUE

\* success_rate() > 0.0, in integers: successful.len() / results.len() is
\* positive exactly when results is not empty and successful is not empty.
SuccessRatePositive(r) ==
    /\ DOMAIN r.results # {}
    /\ Len(r.successful) > 0

(***************************************************************************)
(* execute_concurrent_operation, step by step.                             *)
(***************************************************************************)
Workers == DOMAIN host_names

BatchInit ==
    /\ host_names \in SeqsUpTo(HostIds, MaxHosts)
    /\ max_concurrent_connections \in 0..MaxPermits
    /\ permits = max_concurrent_connections
    /\ bpc = "spawn"
    /\ spawn_i = 1
    /\ handles = <<>>
    /\ join_i = 1
    /\ wpc = [i \in DOMAIN host_names |-> "none"]
    /\ wout = [i \in DOMAIN host_names |-> NoResult]
    /\ result = BatchResultNew

(***************************************************************************)
(* Files, digests and the state of a file deployment before it begins.     *)
(* A file is its byte sequence; SHA-256 is taken to be collision free, so  *)
(* a digest is modelled by the bytes it was computed from (a digest is     *)
(* never compared with a file).                                            *)
(***************************************************************************)
Bytes == {"x", "y"}
Contents == SeqsUpTo(Bytes, MaxFileLen)

Absent == [exists |-> FALSE, data |-> <<>>]
File(c) == [exists |-> TRUE, data |-> c]
Files == {Absent} \cup {File(c) : c \in Contents}

\* sha256sum / calculate_file_hash
Sha256(c) == [algorithm |-> "sha256", of |-> c]
\* crate::utils::calculate_file_hash(local_path, "sha256"): hashes the local file
CalculateFileHash(c) == Sha256(c)
\* the digests a caller can put in precomputed_hash: of any file, or of none
Digests == {Sha256(c) : c \in Contents} \cup {Sha256(<<"z">>)}

NoHash == [some |-> FALSE, hash |-> Sha256(<<>>)]
SomeHash(d) == [some |-> TRUE, hash |-> d]

NoHashInfo == [some |-> FALSE, hash |-> Sha256(<<>>), size |-> 0]
HashInfo(d, n) == [some |-> TRUE, hash |-> d, size |-> n]

NoDeployResult == [ok |-> FALSE, kind |-> "", bytes_transferred |-> 0]
DeployOk(n) == [ok |-> TRUE, kind |-> "Ok", bytes_transferred |-> n]
DeployErr(kind) == [ok |-> FALSE, kind |-> kind, bytes_transferred |-> 0]

RedeployIdle == earlier_calls = <<>>

\* Result<TemplateResult, AnsibleError>
NoTemplateResult == [ok |-> FALSE, kind |-> "", changed |-> FALSE]
TemplateOk(c) == [ok |-> TRUE, kind |-> "Ok", changed |-> c]
TemplateErr(kind) == [ok |-> FALSE, kind |-> kind, changed |-> FALSE]

TemplateIdle ==
    /\ rendered_content = <<>>
    /\ template_options = [backup |-> FALSE, validate |-> FALSE, dest_has_parent |-> FALSE]
    /\ template_remote = [dest |-> Absent, temp_path |-> Absent, bak |-> Absent]
    /\ local_temp = Absent
    /\ changed = FALSE
    /\ tpc = "idle"
    /\ template_session = "up"
    /\ template_result = NoTemplateResult
    /\ template_commands = <<>>
    /\ template_dest_before = Absent

SuffixIdle ==
    /\ now = [timestamp |-> 0, nanos |-> 0]
    /\ suffixes = <<>>

TempFilesIdle ==
    /\ operation = ""
    /\ worker_host = <<>>
    /\ temp_worker = <<>>
    /\ local_files = {}
    /\ remote_files = {}

\* Option<T>
None == [some |-> FALSE, v |-> <<>>]
Some(x) == [some |-> TRUE, v |-> x]

\* no passwd entry / the passwd entry name:x:uid:gid:comment:home:shell
NoUser == [exists |-> FALSE, uid |-> 0, gid |-> 0, comment |-> <<>>, home |-> <<>>,
           shell |-> <<>>]
User(uid, comment, home, shell) ==
    [exists |-> TRUE, uid |-> uid, gid |-> uid, comment |-> comment, home |-> home,
     shell |-> shell]

\* Result<UserResult, AnsibleError>
NoUserResult == [ok |-> FALSE, kind |-> "", changed |-> FALSE]
UserOk(c) == [ok |-> TRUE, kind |-> "Ok", changed |-> c]
UserErr(kind) == [ok |-> FALSE, kind |-> kind, changed |-> FALSE]

UserIdle ==
    /\ user_options = [state |-> "present", uid |-> None, group |-> None, groups |-> None,
                       home |-> None, shell |-> None, password |-> None, comment |-> None,
                       create_home |-> FALSE, system |-> FALSE, expires |-> None]
    /\ passwd = NoUser
    /\ upc = "idle"
    /\ current_info = NoUser
    /\ user_result = NoUserResult
    /\ user_commands = <<>>
    /\ user_before = NoUser

\* Result<SshClient, AnsibleError>: no result yet / Ok(client) / Err(kind(message))
NoConnectResult == [ok |-> FALSE, kind |-> "", message |-> ""]
Connected == [ok |-> TRUE, kind |-> "Ok", message |-> ""]
ConnectErr(kind, message) == [ok |-> FALSE, kind |-> kind, message |-> message]

ConnectIdle ==
    /\ config = [private_key_path |-> FALSE, password |-> FALSE]
    /\ attempt = 0
    /\ cpc = "idle"
    /\ last_error = NoConnectResult
    /\ connect_result = NoConnectResult
    /\ attempts = <<>>
    /\ slept = <<>>

\* no script file of a Shell task exists
ScriptsIdle ==
    /\ script_files = {}
    /\ remote_scripts = {}
    /\ copy_results = <<>>
    /\ script_ran = {}

\* every remote command ends with exit status 0
ExitIdle == exit_status = [h \in Inventory |-> 0]

OthersIdle ==
    /\ RedeployIdle /\ TemplateIdle /\ SuffixIdle /\ TempFilesIdle /\ UserIdle /\ ConnectIdle
    /\ ScriptsIdle

\* nothing but the call, the playbook or the batch under study is in progress
RestIdle == OthersIdle /\ ExitIdle

DeployIdle ==
    /\ local_file = <<>>
    /\ options = [precomputed_hash |-> NoHash, backup |-> FALSE, create_dirs |-> FALSE,
                  mode |-> FALSE, owner |-> FALSE, group |-> FALSE]
    /\ remote_fs = [dest |-> Absent, temp |-> Absent, bak |-> Absent]
    /\ dest_before = Absent
    /\ dpc = "idle"
    /\ local_hash_info = NoHashInfo
    /\ session = "up"
    /\ deploy_result = NoDeployResult
    /\ commands = <<>>

SerialIdle ==
    /\ batch_result = BatchResultNew
    /\ unfinished = {}

PlaybookIdle ==
    /\ tasks = <<>>
    /\ task_i = 1
    /\ failed_hosts = {}
    /\ task_results = <<>>
    /\ overall_success = TRUE
    /\ ppc = "idle"
    /\ skipped_hosts = {}
    /\ playbook_err = NoResult
    /\ trace = <<>>

\* for host_name in host_names { if let Some(config) = self.hosts.get(host_name) { spawn } .. }
SpawnWorker ==
    /\ bpc = "spawn"
    /\ spawn_i <= Len(host_names)
    /\ host_names[spawn_i] \in Inventory
    /\ wpc' = [wpc EXCEPT ![spawn_i] = "spawned"]
    /\ handles' = Append(handles, spawn_i)
    /\ spawn_i' = spawn_i + 1
    /\ UNCHANGED <<pvars, svars, dvars, xvars>>
    /\ UNCHANGED <<host_names, max_concurrent_connections, permits, bpc, join_i, wout, result>>

\* a plausible slip: the spawn loop gives up at the first unknown host id
RecordNotFoundAborts ==
    /\ bpc = "spawn"
    /\ spawn_i <= Len(host_names)
    /\ host_names[spawn_i] \notin Inventory
    /\ result' = AddResult(result, host_names[spawn_i], HostNotFound(host_names[spawn_i]))
    /\ spawn_i' = Len(host_names) + 1
    /\ UNCHANGED <<pvars, svars, dvars, xvars>>
    /\ UNCHANGED <<host_names, max_concurrent_connections, permits, bpc, handles, join_i, wpc, wout>>

\* .. else { result.add_result(host_name, Err(SshConnectionError("Host {} not found"))) }
RecordNotFound ==
    /\ bpc = "spawn"
    /\ spawn_i <= Len(host_names)
    /\ host_names[spawn_i] \notin Inventory
    /\ result' = AddResult(result, host_names[spawn_i], HostNotFound(host_names[spawn_i]))
    /\ spawn_i' = spawn_i + 1
    /\ UNCHANGED <<pvars, svars, dvars, xvars>>
    /\ UNCHANGED <<host_names, max_concurrent_connections, permits, bpc, handles, join_i, wpc, wout>>

SpawnLoopExit ==
    /\ bpc = "spawn"
    /\ spawn_i > Len(host_names)
    /\ bpc' = "join"
    /\ UNCHANGED <<pvars, svars, dvars, xvars>>
    /\ UNCHANGED <<host_names, max_concurrent_connections, permits, spawn_i, handles, join_i,
                   wpc, wout, result>>

\* a plausible slip: `let _ = semaphore.acquire().await` drops the permit at once,
\* so the worker goes on without holding one
AcquireDropsPermit(i) ==
    /\ wpc[i] = "spawned"
    /\ permits > 0
    /\ wpc' = [wpc EXCEPT ![i] = "session"]
    /\ UNCHANGED <<pvars, svars, dvars, xvars>>
    /\ UNCHANGED <<host_names, max_concurrent_connections, permits, bpc, spawn_i, handles,
                   join_i, wout, result>>

\* let _permit = semaphore.acquire().await
Acquire(i) ==
    /\ wpc[i] = "spawned"
    /\ permits > 0
    /\ permits' = permits - 1
    /\ wpc' = [wpc EXCEPT ![i] = "session"]
    /\ UNCHANGED <<pvars, svars, dvars, xvars>>
    /\ UNCHANGED <<host_names, max_concurrent_connections, bpc, spawn_i, handles, join_i, wout, result>>

\* SshClient::new(config) returned Ok(client): the operation starts
SessionOk(i) ==
    /\ wpc[i] = "session"
    /\ wpc' = [wpc EXCEPT ![i] = "operation"]
    /\ UNCHANGED <<pvars, svars, dvars, xvars>>
    /\ UNCHANGED <<host_names, max_concurrent_connections, permits, bpc, spawn_i, handles, join_i,
                   wout, result>>

\* the worker's async block ends with `out`; _permit is dropped
WorkerReturn(i, out) ==
    /\ wpc' = [wpc EXCEPT ![i] = "finished"]
    /\ wout' = [wout EXCEPT ![i] = out]
    /\ permits' = permits + 1
    /\ UNCHANGED <<pvars, svars, dvars, xvars>>
    /\ UNCHANGED <<host_names, max_concurrent_connections, bpc, spawn_i, handles, join_i, result>>

\* SshClient::new(config) returned Err(e) => (host_name, Err(e))
SessionFail(i) ==
    /\ wpc[i] = "session"
    /\ \E e \in SessionErrs : WorkerReturn(i, e)

\* a plausible slip: a non-zero exit status is turned into an error
ExecuteCommandChecked(exit_code) ==
    IF exit_code = 0 THEN OkValue ELSE Err("CommandError", "non-zero exit status", "")

\* execute_command, when no step of the channel fails: Ok(CommandResult { exit_code, .. })
\* whatever the exit status is
ExecuteCommand(exit_code) ==
    [OkValue EXCEPT !.arg = IF exit_code = 0 THEN "" ELSE "exit_code != 0"]

\* ping: let result = self.execute_command("echo 'pong'")?;
\*       Ok(result.exit_code == 0 && result.stdout.trim() == "pong")
\* (an echo that ends with status 0 has written its argument)
Ping(executed) ==
    IF executed.ok
    THEN [OkValue EXCEPT !.arg = IF executed.arg = "" THEN "true" ELSE "false"]
    ELSE executed

\* the operation of the fan-out in progress, on the host of worker i: ping for
\* a Ping task, else a remote command
OperationOn(i, executed) ==
    IF task_i \in DOMAIN tasks /\ tasks[task_i].task_type = "ping"
    THEN Ping(executed)
    ELSE executed

\* operation(client).await returned op_result => (host_name, op_result)
OperationDone(i) ==
    /\ wpc[i] = "operation"
    /\ \E executed \in {ExecuteCommand(exit_status[host_names[i]]), OperationErr} :
          WorkerReturn(i, OperationOn(i, executed))

\* a plausible slip: `if let Ok(..)` applied to op_result, so that failures are not recorded
CollectOutcomeOkOnly(r, w) ==
    IF wout[w].ok THEN AddResult(r, host_names[w], wout[w]) ELSE r

\* what one iteration of the join loop does with the finished worker w
CollectOutcome(r, w) == AddResult(r, host_names[w], wout[w])

\* a plausible slip: the first failed outcome ends the collection (an early return)
JoinWorkerStopsAtFailure ==
    /\ bpc = "join"
    /\ join_i <= Len(handles)
    /\ wpc[handles[join_i]] = "finished"
    /\ result' = CollectOutcome(result, handles[join_i])
    /\ join_i' = IF wout[handles[join_i]].ok THEN join_i + 1 ELSE Len(handles) + 1
    /\ UNCHANGED <<pvars, svars, dvars, xvars>>
    /\ UNCHANGED <<host_names, max_concurrent_connections, permits, bpc, spawn_i, handles, wpc, wout>>

\* for handle in handles { if let Ok((host_name, op_result)) = handle.await { add_result } }
\* handle.await is Err only for a worker that panicked or was aborted; no worker
\* is ever aborted and no step of a worker panics (the semaphore is never closed),
\* so every handle yields Ok.
JoinWorker ==
    /\ bpc = "join"
    /\ join_i <= Len(handles)
    /\ wpc[handles[join_i]] = "finished"
    /\ result' = CollectOutcome(result, handles[join_i])
    /\ join_i' = join_i + 1
    /\ UNCHANGED <<pvars, svars, dvars, xvars>>
    /\ UNCHANGED <<host_names, max_concurrent_connections, permits, bpc, spawn_i, handles, wpc, wout>>

\* a plausible slip: the handles are dropped, not awaited (fire and forget)
BatchReturnUnjoined ==
    /\ bpc = "join"
    /\ bpc' = "done"
    /\ UNCHANGED <<pvars, svars, dvars, xvars>>
    /\ UNCHANGED <<host_names, max_concurrent_connections, permits, spawn_i, handles, join_i,
                   wpc, wout, result>>

BatchReturn ==
    /\ bpc = "join"
    /\ join_i > Len(handles)
    /\ bpc' = "done"
    /\ UNCHANGED <<pvars, svars, dvars, xvars>>
    /\ UNCHANGED <<host_names, max_concurrent_connections, permits, spawn_i, handles, join_i,
                   wpc, wout, result>>

BatchNext ==
    \/ SpawnWorker
    \/ RecordNotFound
    \/ SpawnLoopExit
    \/ \E i \in Workers : Acquire(i)
    \/ \E i \in Workers : SessionOk(i)
    \/ \E i \in Workers : SessionFail(i)
    \/ \E i \in Workers : OperationDone(i)
    \/ JoinWorker
    \/ BatchReturn

InitOfBatch == BatchInit /\ PlaybookIdle /\ SerialIdle /\ DeployIdle /\ RestIdle

SpecBatch == InitOfBatch /\ [][BatchNext]_vars

\* The caller's thread runs on; the tokio runtime runs every spawned task that
\* can run; Semaphore::acquire is served in FIFO order, so a waiting worker gets
\* a permit if permits keep coming back; SshClient::new and the operation
\* terminate.
BatchFairness ==
    /\ WF_vars(SpawnWorker \/ RecordNotFound \/ SpawnLoopExit \/ JoinWorker \/ BatchReturn)
    /\ \A i \in 1..MaxHosts :
           /\ SF_vars(i \in Workers /\ Acquire(i))
           /\ WF_vars(i \in Workers /\ (SessionOk(i) \/ SessionFail(i)))
           /\ WF_vars(i \in Workers /\ OperationDone(i))

SpecBatchFair == InitOfBatch /\ [][BatchNext]_vars /\ BatchFairness

(***************************************************************************)
(* The same call as a fold: the not-found entries in list order, then the  *)
(* workers' outcomes in spawn order.                                       *)
(***************************************************************************)
RECURSIVE SpawnLoop(_, _, _)
SpawnLoop(names, k, r) ==
    IF k > Len(names) THEN r
    ELSE SpawnLoop(names, k + 1,
                   IF names[k] \in Inventory THEN r
                   ELSE AddResult(r, names[k], HostNotFound(names[k])))

RECURSIVE JoinLoop(_, _, _, _)
JoinLoop(names, out, k, r) ==
    IF k > Len(names) THEN r
    ELSE JoinLoop(names, out, k + 1,
                  IF names[k] \in Inventory THEN AddResult(r, names[k], out[k]) ELSE r)

\* names: the host list; out[k]: what the worker of names[k] returns
ExecuteConcurrentOperation(names, out) ==
    JoinLoop(names, out, 1, SpawnLoop(names, 1, BatchResultNew))

\* Every interleaving of one call ends in the result of the fold.
BatchIsFold ==
    bpc = "done" => result = ExecuteConcurrentOperation(host_names, wout)

(***************************************************************************)
(* Playbooks (executor.rs).  A task is its host subset (None: every host   *)
(* of the inventory), its ignore_errors flag and its type; every type but  *)
(* "shell" is one fan-out of a per-host operation, so "command" stands for *)
(* command, copy, system_info, ping, user and template alike.              *)
(***************************************************************************)
NoHosts == [some |-> FALSE, list |-> <<>>]
SomeHosts(list) == [some |-> TRUE, list |-> list]

TaskHostLists == {<<>>, <<"a">>, <<"b", "a">>, <<"a", "u">>, <<"a", "a">>}
TaskTypes == {"command", "shell"}
Tasks == [hosts : {NoHosts} \cup {SomeHosts(l) : l \in TaskHostLists},
          ignore_errors : BOOLEAN,
          task_type : TaskTypes]

\* self.manager.list_hosts(): the keys of a HashMap, in whatever order it iterates
ListHosts == {l \in SeqsUpTo(Inventory, Cardinality(Inventory)) :
                 /\ Len(l) = Cardinality(Inventory)
                 /\ Range(l) = Inventory}

\* what a worker of a playbook task returns; the runner only looks at Ok / Err,
\* so one error stands for the session and operation errors of SpecBatch
TaskOutcomes == {OkValue, Err("AuthenticationError", "Authentication failed", "")}
OutcomesFor(names) == [DOMAIN names -> TaskOutcomes]

ScriptWriteErr == Err("FileOperationError", "Failed to create script file", "")
ScriptCopyErr == Err("FileOperationError", "Failed to copy script to remote hosts", "")

\* a plausible slip: the filter is dropped and every target host stays active
ActiveHostsUnfiltered(all_hosts, failed) == all_hosts

\* all_hosts.iter().filter(|h| !failed_hosts.contains(h))
ActiveHosts(all_hosts, failed) == SelectSeq(all_hosts, LAMBDA h : h \notin failed)

\* all_hosts.iter().filter(|h| failed_hosts.contains(h))
SkippedHosts(all_hosts, failed) == SelectSeq(all_hosts, LAMBDA h : h \in failed)

\* the synthetic result of a task with no active host
RECURSIVE SkippedResult(_, _, _)
SkippedResult(skipped, k, r) ==
    IF k > Len(skipped) THEN r
    ELSE SkippedResult(skipped, k + 1, AddResult(r, skipped[k], HostSkipped))

\* a plausible slip: ignore_errors is not consulted when failures are recorded
FailedHostsAfterAlways(failed, task, r) == failed \cup Range(r.failed)

\* if !task.ignore_errors { for host in task_failed_hosts { failed_hosts.insert(host) } }
FailedHostsAfter(failed, task, r) ==
    IF ~task.ignore_errors THEN failed \cup Range(r.failed) ELSE failed

\* if !success && !task.ignore_errors { overall_success = false }
OverallSuccessAfter(overall, task, r) ==
    IF ~SuccessRatePositive(r) /\ ~task.ignore_errors THEN FALSE ELSE overall

\* a plausible slip: the loop carries on after a task on which every host failed
BreakNever(task, r) == FALSE

\* if !success && !task.ignore_errors { break }
BreakAfter(task, r) == ~SuccessRatePositive(r) /\ ~task.ignore_errors

BatchIdle ==
    /\ host_names = <<>>
    /\ max_concurrent_connections = 0
    /\ permits = 0
    /\ bpc = "idle"
    /\ spawn_i = 1
    /\ handles = <<>>
    /\ join_i = 1
    /\ wpc = <<>>
    /\ wout = <<>>
    /\ result = BatchResultNew

PlaybookInit ==
    /\ tasks \in SeqsUpTo(Tasks, MaxTasks)
    /\ task_i = 1
    /\ failed_hosts = {}
    /\ task_results = <<>>
    /\ overall_success = TRUE
    /\ ppc = "run"
    /\ skipped_hosts = {}
    /\ playbook_err = NoResult
    /\ trace = <<>>

\* the record of one call of execute_task
Executed(all_hosts, fanouts, returned, variant, r) ==
    [task          |-> task_i,
     all_hosts     |-> all_hosts,
     active_hosts  |-> ActiveHosts(all_hosts, failed_hosts),
     skipped_hosts |-> SkippedHosts(all_hosts, failed_hosts),
     failed_before |-> failed_hosts,
     overall_before |-> overall_success,
     fanouts       |-> fanouts,
     returned      |-> returned,
     variant       |-> variant,
     error         |-> NoResult,
     result        |-> r]

\* Ok(result) => { .. } of the task loop
TaskReturnsOk(all_hosts, fanouts, variant, r) ==
    LET task == tasks[task_i] IN
    /\ failed_hosts' = FailedHostsAfter(failed_hosts, task, r)
    /\ overall_success' = OverallSuccessAfter(overall_success, task, r)
    /\ task_results' = Append(task_results, [name |-> task_i, variant |-> variant, result |-> r])
    /\ trace' = Append(trace, Executed(all_hosts, fanouts, "Ok", variant, r))
    /\ task_i' = task_i + 1
    /\ ppc' = IF BreakAfter(task, r) THEN "break" ELSE "run"
    /\ UNCHANGED <<tasks, skipped_hosts, playbook_err>>
    /\ UNCHANGED <<bvars, svars, dvars, zvars>>

\* a plausible slip: a task-level error never ends the playbook
ReturnsErrNever(task) == FALSE

\* if !task.ignore_errors { return Err(e); }
ReturnsErr(task) == ~task.ignore_errors

\* Err(e) => { if !task.ignore_errors { return Err(e) } overall_success = false }
TaskReturnsErr(all_hosts, fanouts, e) ==
    LET task == tasks[task_i] IN
    /\ trace' = Append(trace, [Executed(all_hosts, fanouts, "Err", e.kind, BatchResultNew)
                                  EXCEPT !.error = e])
    /\ task_i' = task_i + 1
    /\ ppc' = IF ReturnsErr(task) THEN "err" ELSE "run"
    /\ playbook_err' = IF ReturnsErr(task) THEN e ELSE playbook_err
    /\ overall_success' = IF ReturnsErr(task) THEN overall_success ELSE FALSE
    /\ UNCHANGED <<tasks, failed_hosts, task_results, skipped_hosts>>
    /\ UNCHANGED <<bvars, svars, dvars, zvars>>

AllHostsOf(task) == IF task.hosts.some THEN {task.hosts.list} ELSE ListHosts

InTaskLoop == ppc = "run" /\ task_i <= Len(tasks)

\* execute_task: active_hosts is empty, every target host is reported as skipped
TaskAllSkipped ==
    /\ InTaskLoop
    /\ \E all_hosts \in AllHostsOf(tasks[task_i]) :
          /\ ActiveHosts(all_hosts, failed_hosts) = <<>>
          /\ TaskReturnsOk(all_hosts, <<>>, "Ping",
                SkippedResult(SkippedHosts(all_hosts, failed_hosts), 1, BatchResultNew))
    /\ UNCHANGED hvars

\* execute_task: one fan-out of the per-host operation over active_hosts
TaskFanOut ==
    /\ InTaskLoop
    /\ tasks[task_i].task_type = "command"
    /\ \E all_hosts \in AllHostsOf(tasks[task_i]) :
          LET active == ActiveHosts(all_hosts, failed_hosts) IN
          /\ active # <<>>
          /\ \E out \in OutcomesFor(active) :
                TaskReturnsOk(all_hosts, <<active>>, "Command",
                              ExecuteConcurrentOperation(active, out))
    /\ UNCHANGED hvars

\* execute_task, Shell: std::fs::write of the local script file fails
TaskShellWriteFails ==
    /\ InTaskLoop
    /\ tasks[task_i].task_type = "shell"
    /\ \E all_hosts \in AllHostsOf(tasks[task_i]) :
          /\ ActiveHosts(all_hosts, failed_hosts) # <<>>
          /\ TaskReturnsErr(all_hosts, <<>>, ScriptWriteErr)
    /\ UNCHANGED hvars

\* execute_task, Shell: the copy fan-out succeeds somewhere; the execute and the
\* cleanup fan-outs follow, and the task's result is that of the execute fan-out
TaskShellRuns ==
    /\ InTaskLoop
    /\ tasks[task_i].task_type = "shell"
    /\ \E all_hosts \in AllHostsOf(tasks[task_i]) :
          LET active == ActiveHosts(all_hosts, failed_hosts) IN
          /\ active # <<>>
          /\ \E copy_out \in OutcomesFor(active), exec_out \in OutcomesFor(active) :
                /\ SuccessRatePositive(ExecuteConcurrentOperation(active, copy_out))
                /\ TaskReturnsOk(all_hosts, <<active, active, active>>, "Command",
                                 ExecuteConcurrentOperation(active, exec_out))
    /\ UNCHANGED hvars

\* execute_task, Shell: the copy fan-out succeeds nowhere
TaskShellCopyFails ==
    /\ InTaskLoop
    /\ tasks[task_i].task_type = "shell"
    /\ \E all_hosts \in AllHostsOf(tasks[task_i]) :
          LET active == ActiveHosts(all_hosts, failed_hosts) IN
          /\ active # <<>>
          /\ \E copy_out \in OutcomesFor(active) :
                /\ ~SuccessRatePositive(ExecuteConcurrentOperation(active, copy_out))
                /\ TaskReturnsErr(all_hosts, <<active>>, ScriptCopyErr)
    /\ UNCHANGED hvars

\* after the loop (ended or broken): Ok(PlaybookResult { .. })
PlaybookReturn ==
    /\ \/ ppc = "break"
       \/ ppc = "run" /\ task_i > Len(tasks)
    /\ ppc' = "ok"
    /\ skipped_hosts' = failed_hosts
    /\ UNCHANGED <<tasks, task_i, failed_hosts, task_results, overall_success, playbook_err, trace>>
    /\ UNCHANGED <<bvars, svars, dvars, xvars>>

PlaybookNext ==
    \/ TaskAllSkipped
    \/ TaskFanOut
    \/ TaskShellWriteFails
    \/ TaskShellRuns
    \/ TaskShellCopyFails
    \/ PlaybookReturn

InitOfPlaybook == BatchIdle /\ PlaybookInit /\ SerialIdle /\ DeployIdle /\ RestIdle

SpecPlaybook == InitOfPlaybook /\ [][PlaybookNext]_vars

(***************************************************************************)
(* The same execute_playbook on longer playbooks whose tasks name their    *)
(* hosts: a host can fail in one task, be left out of a second and be the  *)
(* whole target of a third.                                                *)
(***************************************************************************)
MaxLongTasks == 3

LongTasks == [hosts : {SomeHosts(<<"a">>), SomeHosts(<<"b", "a">>)},
              ignore_errors : BOOLEAN,
              task_type : TaskTypes]

LongPlaybookInit ==
    /\ tasks \in SeqsUpTo(LongTasks, MaxLongTasks)
    /\ task_i = 1
    /\ failed_hosts = {}
    /\ task_results = <<>>
    /\ overall_success = TRUE
    /\ ppc = "run"
    /\ skipped_hosts = {}
    /\ playbook_err = NoResult
    /\ trace = <<>>

InitOfLongPlaybook == BatchIdle /\ LongPlaybookInit /\ SerialIdle /\ DeployIdle /\ RestIdle

SpecLongPlaybook == InitOfLongPlaybook /\ [][PlaybookNext]_vars

(***************************************************************************)
(* SpecSerial: execute_playbook with every fan-out of every task run step  *)
(* by step as in SpecBatch.  execute_task awaits each call of              *)
(* execute_concurrent_operation before it goes on, and execute_playbook    *)
(* awaits execute_task before the next iteration: the caller moves only    *)
(* when bpc = "done".  Tasks name their hosts: two inventory hosts and an  *)
(* unknown one, or (the shell tasks) one inventory host.                   *)
(***************************************************************************)
SerialTasks == [hosts : {SomeHosts(<<"b", "a", "u">>)}, ignore_errors : BOOLEAN,
                task_type : {"command"}]
               \cup [hosts : {SomeHosts(<<"a">>)}, ignore_errors : BOOLEAN,
                     task_type : {"shell"}]

SerialInit ==
    /\ tasks \in SeqsUpTo(SerialTasks, MaxTasks)
    /\ task_i = 1
    /\ failed_hosts = {}
    /\ task_results = <<>>
    /\ overall_success = TRUE
    /\ ppc = "run"
    /\ skipped_hosts = {}
    /\ playbook_err = NoResult
    /\ trace = <<>>
    /\ host_names = <<>>
    /\ max_concurrent_connections \in 1..MaxPermits
    /\ permits = max_concurrent_connections
    /\ bpc = "idle"
    /\ spawn_i = 1
    /\ handles = <<>>
    /\ join_i = 1
    /\ wpc = <<>>
    /\ wout = <<>>
    /\ result = BatchResultNew

\* the workers of the fan-out that has returned which have not finished
LeftRunning == {<<task_i, ppc, i>> : i \in {j \in Workers : wpc[j] \notin {"none", "finished"}}}

\* self.manager.<operation>_on_hosts(.., &active_hosts).await is entered
FanOutBegin(names) ==
    /\ bpc \in {"idle", "done"}
    /\ unfinished' = unfinished \cup LeftRunning
    /\ host_names' = names
    /\ permits' = max_concurrent_connections
    /\ bpc' = "spawn"
    /\ spawn_i' = 1
    /\ handles' = <<>>
    /\ join_i' = 1
    /\ wpc' = [i \in DOMAIN names |-> "none"]
    /\ wout' = [i \in DOMAIN names |-> NoResult]
    /\ result' = BatchResultNew
    /\ UNCHANGED max_concurrent_connections

\* the all_hosts of the task in progress: the list whose active part was handed out
AllHostsInProgress == {l \in AllHostsOf(tasks[task_i]) : ActiveHosts(l, failed_hosts) = host_names}

\* execute_task, not Shell: the fan-out over active_hosts is called
SerialFanOutBegin ==
    /\ InTaskLoop
    /\ tasks[task_i].task_type \in {"command", "ping"}
    /\ \E all_hosts \in AllHostsOf(tasks[task_i]) :
          /\ ActiveHosts(all_hosts, failed_hosts) # <<>>
          /\ FanOutBegin(ActiveHosts(all_hosts, failed_hosts))
    /\ ppc' = "fanout"
    /\ UNCHANGED <<tasks, task_i, failed_hosts, task_results, overall_success,
                   skipped_hosts, playbook_err, trace, batch_result>>
    /\ UNCHANGED <<dvars, xvars>>

\* .. and has returned: execute_task returns Ok(result), the Ok arm runs
SerialFanOutEnd ==
    /\ ppc = "fanout"
    /\ bpc = "done"
    /\ \E all_hosts \in AllHostsInProgress :
          TaskReturnsOk(all_hosts, <<host_names>>,
                        IF tasks[task_i].task_type = "ping" THEN "Ping" ELSE "Command",
                        result)
    /\ UNCHANGED hvars

\* execute_task, Shell: the script file is written, copy_file_to_hosts is called
SerialShellBegin ==
    /\ InTaskLoop
    /\ tasks[task_i].task_type = "shell"
    /\ \E all_hosts \in AllHostsOf(tasks[task_i]) :
          /\ ActiveHosts(all_hosts, failed_hosts) # <<>>
          /\ FanOutBegin(ActiveHosts(all_hosts, failed_hosts))
    /\ ppc' = "copy"
    /\ script_files' = script_files \cup {task_i}
    /\ UNCHANGED <<remote_scripts, copy_results, script_ran>>
    /\ UNCHANGED <<tasks, task_i, failed_hosts, task_results, overall_success,
                   skipped_hosts, playbook_err, trace, batch_result>>
    /\ UNCHANGED <<dvars, zvars>>

\* the hosts of the fan-out just returned on which the operation was begun and
\* returned an error: what it did on the host before the error is not known
Interrupted == {h \in Range(result.failed) : result.results[h] = OperationErr}

\* the copy fan-out has returned: the script is on the hosts where the copy
\* succeeded, and may be on hosts where the copy returned an error after the mv
CopyFanOutEnd ==
    /\ copy_results' = (task_i :> result) @@ copy_results
    /\ \E arrived \in SUBSET Interrupted :
          remote_scripts' = remote_scripts
                                \cup {<<task_i, h>> : h \in Range(result.successful) \cup arrived}

\* if copy_result.success_rate() > 0.0 { execute_command_on_hosts(..)
SerialShellCopyOk ==
    /\ ppc = "copy"
    /\ bpc = "done"
    /\ SuccessRatePositive(result)
    /\ CopyFanOutEnd
    /\ FanOutBegin(host_names)
    /\ ppc' = "exec"
    /\ UNCHANGED <<script_files, script_ran>>
    /\ UNCHANGED <<tasks, task_i, failed_hosts, task_results, overall_success,
                   skipped_hosts, playbook_err, trace, batch_result>>
    /\ UNCHANGED <<dvars, zvars>>

\* } else { Err(FileOperationError("Failed to copy script to remote hosts")) }
SerialShellCopyFails ==
    /\ ppc = "copy"
    /\ bpc = "done"
    /\ ~SuccessRatePositive(result)
    /\ \E all_hosts \in AllHostsInProgress :
          TaskReturnsErr(all_hosts, <<host_names>>, ScriptCopyErr)
    /\ CopyFanOutEnd
    /\ UNCHANGED <<script_files, script_ran>>

\* let batch_result = ..await; then the cleanup command is fanned out
SerialShellExecEnd ==
    /\ ppc = "exec"
    /\ bpc = "done"
    /\ batch_result' = result
    /\ \E ran \in SUBSET Interrupted :
          script_ran' = script_ran
                            \cup {<<task_i, h>> : h \in {g \in Range(result.successful) \cup ran :
                                                           <<task_i, g>> \in remote_scripts}}
    /\ FanOutBegin(host_names)
    /\ ppc' = "cleanup"
    /\ UNCHANGED <<script_files, remote_scripts, copy_results>>
    /\ UNCHANGED <<tasks, task_i, failed_hosts, task_results, overall_success,
                   skipped_hosts, playbook_err, trace>>
    /\ UNCHANGED <<dvars, zvars>>

\* the cleanup fan-out has returned: TaskResult::Command(batch_result)
SerialShellCleanupEnd ==
    /\ ppc = "cleanup"
    /\ bpc = "done"
    /\ \E all_hosts \in AllHostsInProgress :
          TaskReturnsOk(all_hosts, <<host_names, host_names, host_names>>, "Command",
                        batch_result)
    /\ \E removed \in SUBSET Interrupted :
          remote_scripts' = remote_scripts
                                \ {<<task_i, h>> : h \in Range(result.successful) \cup removed}
    /\ UNCHANGED <<script_files, copy_results, script_ran>>

SerialNext ==
    \/ TaskAllSkipped
    \/ TaskShellWriteFails
    \/ SerialFanOutBegin
    \/ SerialFanOutEnd
    \/ SerialShellBegin
    \/ SerialShellCopyOk
    \/ SerialShellCopyFails
    \/ SerialShellExecEnd
    \/ SerialShellCleanupEnd
    \/ PlaybookReturn
    \/ SpawnWorker
    \/ RecordNotFound
    \/ SpawnLoopExit
    \/ \E i \in Workers : Acquire(i)
    \/ \E i \in Workers : SessionOk(i)
    \/ \E i \in Workers : SessionFail(i)
    \/ \E i \in Workers : OperationDone(i)
    \/ JoinWorker
    \/ BatchReturn

InitOfSerial == SerialInit /\ SerialIdle /\ DeployIdle /\ RestIdle

SpecSerial == InitOfSerial /\ [][SerialNext]_vars

(***************************************************************************)
(* SpecShell: execute_playbook on a playbook of one Shell task over three  *)
(* target hosts, one of them unknown to the inventory, with the copy, the  *)
(* execute and the cleanup fan-outs run step by step.                      *)
(***************************************************************************)
ShellTasks == [hosts : {SomeHosts(<<"a", "b", "u">>)}, ignore_errors : BOOLEAN,
               task_type : {"shell"}]

ShellInit ==
    /\ tasks \in {<<t>> : t \in ShellTasks}
    /\ task_i = 1
    /\ failed_hosts = {}
    /\ task_results = <<>>
    /\ overall_success = TRUE
    /\ ppc = "run"
    /\ skipped_hosts = {}
    /\ playbook_err = NoResult
    /\ trace = <<>>
    /\ host_names = <<>>
    /\ max_concurrent_connections \in 1..MaxPermits
    /\ permits = max_concurrent_connections
    /\ bpc = "idle"
    /\ spawn_i = 1
    /\ handles = <<>>
    /\ join_i = 1
    /\ wpc = <<>>
    /\ wout = <<>>
    /\ result = BatchResultNew

ShellNext ==
    \/ TaskShellWriteFails
    \/ SerialShellBegin
    \/ SerialShellCopyOk
    \/ SerialShellCopyFails
    \/ SerialShellExecEnd
    \/ SerialShellCleanupEnd
    \/ PlaybookReturn
    \/ SpawnWorker
    \/ RecordNotFound
    \/ SpawnLoopExit
    \/ \E i \in Workers : Acquire(i)
    \/ \E i \in Workers : SessionOk(i)
    \/ \E i \in Workers : SessionFail(i)
    \/ \E i \in Workers : OperationDone(i)
    \/ JoinWorker
    \/ BatchReturn

InitOfShell == ShellInit /\ SerialIdle /\ DeployIdle /\ RestIdle

SpecShell == InitOfShell /\ [][ShellNext]_vars

(***************************************************************************)
(* SpecExit: execute_playbook on playbooks of Command and Ping tasks, run   *)
(* step by step, on hosts whose remote command may end with a non-zero      *)
(* exit status.                                                            *)
(***************************************************************************)
ExitStatuses == {0, 1}

ExitTasks == [hosts : {SomeHosts(<<"b", "a">>)}, ignore_errors : BOOLEAN,
              task_type : {"command"}]
             \cup [hosts : {SomeHosts(<<"a">>)}, ignore_errors : BOOLEAN,
                   task_type : {"ping"}]

ExitInit ==
    /\ tasks \in SeqsUpTo(ExitTasks, MaxTasks)
    /\ exit_status \in [Inventory -> ExitStatuses]
    /\ task_i = 1
    /\ failed_hosts = {}
    /\ task_results = <<>>
    /\ overall_success = TRUE
    /\ ppc = "run"
    /\ skipped_hosts = {}
    /\ playbook_err = NoResult
    /\ trace = <<>>
    /\ host_names = <<>>
    /\ max_concurrent_connections \in 1..MaxPermits
    /\ permits = max_concurrent_connections
    /\ bpc = "idle"
    /\ spawn_i = 1
    /\ handles = <<>>
    /\ join_i = 1
    /\ wpc = <<>>
    /\ wout = <<>>
    /\ result = BatchResultNew

ExitNext ==
    \/ TaskAllSkipped
    \/ SerialFanOutBegin
    \/ SerialFanOutEnd
    \/ PlaybookReturn
    \/ SpawnWorker
    \/ SpawnLoopExit
    \/ \E i \in Workers : Acquire(i)
    \/ \E i \in Workers : SessionOk(i)
    \/ \E i \in Workers : SessionFail(i)
    \/ \E i \in Workers : OperationDone(i)
    \/ JoinWorker
    \/ BatchReturn

InitOfExit == ExitInit /\ SerialIdle /\ DeployIdle /\ OthersIdle

SpecExit == InitOfExit /\ [][ExitNext]_vars

(***************************************************************************)
(* SpecDeploy: one call of SshClient::copy_file_to_remote_with_options,    *)
(* one action per remote command.  The session can go down and the process *)
(* can die between any two steps; the bytes that arrive in the staging     *)
(* file need not be the bytes that were sent.                              *)
(***************************************************************************)
\* the calls that differ in the file, the hash and the transfer options, with no
\* attribute or with all three
DeployOptions ==
    {o \in [precomputed_hash : {NoHash} \cup {SomeHash(d) : d \in Digests},
            backup : BOOLEAN,
            create_dirs : BOOLEAN,
            mode : BOOLEAN, owner : BOOLEAN, group : BOOLEAN] :
        o.mode = o.owner /\ o.owner = o.group}

\* the calls that differ in the attributes, with both or none of backup and
\* create_dirs
AttributeOptions ==
    {o \in [precomputed_hash : {NoHash} \cup {SomeHash(d) : d \in Digests},
            backup : BOOLEAN,
            create_dirs : BOOLEAN,
            mode : BOOLEAN, owner : BOOLEAN, group : BOOLEAN] :
        o.backup = o.create_dirs}

DeployInitWith(option_set) ==
    /\ local_file \in Contents
    /\ options \in option_set
    /\ \E f \in Files : remote_fs = [dest |-> f, temp |-> Absent, bak |-> Absent]
    /\ dest_before = remote_fs.dest
    /\ dpc = "hash_local"
    /\ local_hash_info = NoHashInfo
    /\ session = "up"
    /\ deploy_result = NoDeployResult
    /\ commands = <<>>

DeployInit == DeployInitWith(DeployOptions)

AttributesInit ==
    /\ DeployInitWith(AttributeOptions)
    /\ options.precomputed_hash \in
           {NoHash, SomeHash(Sha256(local_file)), SomeHash(Sha256(<<"z">>))}

\* get_remote_file_hash: None when test -f fails, else stat and sha256sum
GetRemoteFileHash(f) ==
    IF f.exists THEN HashInfo(Sha256(f.data), Len(f.data)) ELSE NoHashInfo

\* a plausible slip: the size test of the idempotency check inverted
SameHashOtherSize(remote_hash_info, local) ==
    /\ remote_hash_info.hash = local.hash
    /\ remote_hash_info.size # local.size

\* a plausible slip: the idempotency check compares the sizes only
SameSize(remote_hash_info, local) == remote_hash_info.size = local.size

\* remote_hash_info.hash == local_hash_info.hash && remote_hash_info.size == local_hash_info.size
SameHashAndSize(remote_hash_info, local) ==
    /\ remote_hash_info.hash = local.hash
    /\ remote_hash_info.size = local.size

\* a plausible slip: the staging file is not verified
VerifiedUnchecked(remote_hash_info, local) == TRUE

\* the staging file passes: neither hash != nor size !=
Verified(remote_hash_info, local) ==
    /\ ~(remote_hash_info.hash # local.hash)
    /\ ~(remote_hash_info.size # local.size)

Did(c) == commands' = Append(commands, c)

\* return Ok(..) / return Err(..)
Return(r) ==
    /\ dpc' = "returned"
    /\ deploy_result' = r

\* the steps that run a remote command whose error is propagated with `?`
Propagating ==
    {"probe", "scp_send", "close", "verify", "mv"}
        \cup (IF options.mode THEN {"skip_attrs", "attrs"} ELSE {})
        \cup (IF options.owner \/ options.group THEN {"skip_owner", "owner"} ELSE {})
        \cup (IF options.create_dirs THEN {"mkdir"} ELSE {})
        \cup (IF options.backup THEN {"backup"} ELSE {})

\* phase 1: the precomputed hash, trusted, with the size from the metadata; or
\* calculate_local_file_hash
HashLocal ==
    /\ dpc = "hash_local"
    /\ local_hash_info' =
           HashInfo(IF options.precomputed_hash.some THEN options.precomputed_hash.hash
                                                     ELSE CalculateFileHash(local_file),
                    Len(local_file))
    /\ dpc' = "probe"
    /\ UNCHANGED <<local_file, options, remote_fs, dest_before, session, deploy_result,
                   commands>>
    /\ UNCHANGED <<bvars, pvars, svars, xvars>>

\* phase 2: the destination exists with the local hash and size: no transfer
ProbeUnchanged ==
    /\ dpc = "probe"
    /\ session = "up"
    /\ remote_fs.dest.exists
    /\ SameHashAndSize(GetRemoteFileHash(remote_fs.dest), local_hash_info)
    /\ dpc' = "skip_attrs"
    /\ Did("hash dest")
    /\ UNCHANGED <<local_file, options, remote_fs, dest_before, local_hash_info, session,
                   deploy_result>>
    /\ UNCHANGED <<bvars, pvars, svars, xvars>>

\* phase 2: the destination does not exist or differs: will transfer
ProbeChanged ==
    /\ dpc = "probe"
    /\ session = "up"
    /\ ~(/\ remote_fs.dest.exists
          /\ SameHashAndSize(GetRemoteFileHash(remote_fs.dest), local_hash_info))
    /\ dpc' = "mkdir"
    /\ Did("hash dest")
    /\ UNCHANGED <<local_file, options, remote_fs, dest_before, local_hash_info, session,
                   deploy_result>>
    /\ UNCHANGED <<bvars, pvars, svars, xvars>>

\* apply_file_attributes, first half: if let Some(mode) { chmod; exit code != 0
\* => Err }; options.mode is whether a mode is set
ApplyFileAttributes ==
    /\ dpc \in {"skip_attrs", "attrs"}
    /\ IF ~options.mode
       THEN /\ dpc' = IF dpc = "skip_attrs" THEN "skip_owner" ELSE "owner"
            /\ UNCHANGED <<deploy_result, commands>>
       ELSE /\ session = "up"
            /\ Did("chmod")
            /\ \/ /\ dpc' = IF dpc = "skip_attrs" THEN "skip_owner" ELSE "owner"
                  /\ UNCHANGED deploy_result
               \/ Return(DeployErr("FileOperationError"))
    /\ UNCHANGED <<local_file, options, remote_fs, dest_before, local_hash_info, session>>
    /\ UNCHANGED <<bvars, pvars, svars, xvars>>

\* a plausible slip: the group is dropped from the chown
OwnerCommandWithoutGroup(o) == IF o.owner THEN "chown owner" ELSE "chgrp"

\* the command of the second half: chown OWNER:GROUP or chown OWNER if an owner
\* is set, else chgrp GROUP
OwnerCommand(o) ==
    IF o.owner THEN (IF o.group THEN "chown owner:group" ELSE "chown owner") ELSE "chgrp"

\* apply_file_attributes, second half, then Ok: after the skip with
\* bytes_transferred 0, after the mv with the bytes copied
ApplyFileOwner ==
    /\ dpc \in {"skip_owner", "owner"}
    /\ IF ~options.owner /\ ~options.group
       THEN /\ Return(DeployOk(IF dpc = "skip_owner" THEN 0 ELSE Len(local_file)))
            /\ UNCHANGED commands
       ELSE /\ session = "up"
            /\ Did(OwnerCommand(options))
            /\ \/ Return(DeployOk(IF dpc = "skip_owner" THEN 0 ELSE Len(local_file)))
               \/ Return(DeployErr("FileOperationError"))
    /\ UNCHANGED <<local_file, options, remote_fs, dest_before, local_hash_info, session>>
    /\ UNCHANGED <<bvars, pvars, svars, xvars>>

\* if options.create_dirs { mkdir -p parent; exit code != 0 => Err }
Mkdir ==
    /\ dpc = "mkdir"
    /\ IF ~options.create_dirs
       THEN /\ dpc' = "backup"
            /\ UNCHANGED <<deploy_result, commands>>
       ELSE /\ session = "up"
            /\ Did("mkdir")
            /\ \/ dpc' = "backup" /\ UNCHANGED deploy_result
               \/ Return(DeployErr("FileOperationError"))
    /\ UNCHANGED <<local_file, options, remote_fs, dest_before, local_hash_info, session>>
    /\ UNCHANGED <<bvars, pvars, svars, xvars>>

\* if options.backup { [ -f dest ] && cp dest dest.bak.TS || true }
Backup ==
    /\ dpc = "backup"
    /\ IF ~options.backup
       THEN UNCHANGED <<remote_fs, commands>>
       ELSE /\ session = "up"
            /\ Did("backup")
            /\ remote_fs' = IF remote_fs.dest.exists
                             THEN [remote_fs EXCEPT !.bak = remote_fs.dest]
                             ELSE remote_fs
    /\ dpc' = "scp_send"
    /\ UNCHANGED <<local_file, options, dest_before, local_hash_info, session, deploy_result>>
    /\ UNCHANGED <<bvars, pvars, svars, xvars>>

\* session.scp_send(temp_remote_path, ..)?: the staging file is created, or not
ScpSend ==
    /\ dpc = "scp_send"
    /\ session = "up"
    /\ \/ /\ remote_fs' = [remote_fs EXCEPT !.temp = File(<<>>)]
          /\ dpc' = "copy"
          /\ Did("scp_send")
          /\ UNCHANGED deploy_result
       \/ /\ Return(DeployErr("Ssh2Error"))
          /\ UNCHANGED <<remote_fs, commands>>
    /\ UNCHANGED <<local_file, options, dest_before, local_hash_info, session>>
    /\ UNCHANGED <<bvars, pvars, svars, xvars>>

\* std::io::copy: the next byte reaches the staging file
CopyByte ==
    /\ dpc = "copy"
    /\ session = "up"
    /\ Len(remote_fs.temp.data) < Len(local_file)
    /\ remote_fs' = [remote_fs EXCEPT
                        !.temp = File(Append(remote_fs.temp.data,
                                             local_file[Len(remote_fs.temp.data) + 1]))]
    /\ UNCHANGED <<local_file, options, dest_before, dpc, local_hash_info, session,
                   deploy_result, commands>>
    /\ UNCHANGED <<bvars, pvars, svars, xvars>>

\* std::io::copy returns an error: Err("Failed to transfer file"), nothing else
CopyFails ==
    /\ dpc = "copy"
    /\ Return(DeployErr("FileOperationError"))
    /\ UNCHANGED <<local_file, options, remote_fs, dest_before, local_hash_info, session,
                   commands>>
    /\ UNCHANGED <<bvars, pvars, svars, xvars>>

\* std::io::copy returns Ok(bytes_transferred)
CopyDone ==
    /\ dpc = "copy"
    /\ session = "up"
    /\ Len(remote_fs.temp.data) = Len(local_file)
    /\ dpc' = "close"
    /\ UNCHANGED <<local_file, options, remote_fs, dest_before, local_hash_info, session,
                   deploy_result, commands>>
    /\ UNCHANGED <<bvars, pvars, svars, xvars>>

\* send_eof, wait_eof, close, wait_close: what the staging path holds now is
\* up to the network and the remote disk
CloseChannel ==
    /\ dpc = "close"
    /\ session = "up"
    /\ \E f \in Files : remote_fs' = [remote_fs EXCEPT !.temp = f]
    /\ dpc' = "verify"
    /\ UNCHANGED <<local_file, options, dest_before, local_hash_info, session,
                   deploy_result, commands>>
    /\ UNCHANGED <<bvars, pvars, svars, xvars>>

\* phase 3: get_remote_file_hash(temp_remote_path)? and the two comparisons
VerifyStaging ==
    /\ dpc = "verify"
    /\ session = "up"
    /\ IF ~remote_fs.temp.exists
       THEN dpc' = "rm_unverified" /\ Did("missing")
       ELSE IF Verified(GetRemoteFileHash(remote_fs.temp), local_hash_info)
            THEN dpc' = "mv" /\ Did("verified")
            ELSE dpc' = "rm_unverified" /\ Did("mismatch")
    /\ UNCHANGED <<local_file, options, remote_fs, dest_before, local_hash_info, session,
                   deploy_result>>
    /\ UNCHANGED <<bvars, pvars, svars, xvars>>

\* a plausible slip: the error is returned and the staging file left behind
ReturnWithoutCleanup ==
    /\ dpc \in {"rm_unverified", "rm_unmoved"}
    /\ Return(DeployErr("FileOperationError"))
    /\ UNCHANGED <<local_file, options, remote_fs, dest_before, local_hash_info, session,
                   commands>>
    /\ UNCHANGED <<bvars, pvars, svars, xvars>>

\* let _ = execute_command("rm -f temp"); return Err(FileOperationError(..))
RemoveStaging ==
    /\ dpc \in {"rm_unverified", "rm_unmoved"}
    /\ IF session = "up"
       THEN /\ remote_fs' = [remote_fs EXCEPT !.temp = Absent]
            /\ Did("rm")
       ELSE UNCHANGED <<remote_fs, commands>>
    /\ Return(DeployErr("FileOperationError"))
    /\ UNCHANGED <<local_file, options, dest_before, local_hash_info, session>>
    /\ UNCHANGED <<bvars, pvars, svars, xvars>>

\* mv 'temp' 'dest': a rename within one directory; exit code != 0 => cleanup;
\* the rename can also be done and its reply lost with the connection
MoveToDest ==
    /\ dpc = "mv"
    /\ session = "up"
    /\ \/ /\ remote_fs' = [remote_fs EXCEPT !.dest = remote_fs.temp, !.temp = Absent]
          /\ dpc' = "attrs"
          /\ Did("mv")
          /\ UNCHANGED <<session, deploy_result>>
       \/ /\ dpc' = "rm_unmoved"
          /\ Did("mv failed")
          /\ UNCHANGED <<remote_fs, session, deploy_result>>
       \/ /\ remote_fs' = [remote_fs EXCEPT !.dest = remote_fs.temp, !.temp = Absent]
          /\ session' = "down"
          /\ Did("mv")
          /\ Return(DeployErr("Ssh2Error"))
    /\ UNCHANGED <<local_file, options, dest_before, local_hash_info>>
    /\ UNCHANGED <<bvars, pvars, svars, xvars>>

\* execute_command(..)? (or scp_send, or close) on a session that is down
CommandOnDeadSession ==
    /\ dpc \in Propagating
    /\ session = "down"
    /\ Return(DeployErr("Ssh2Error"))
    /\ UNCHANGED <<local_file, options, remote_fs, dest_before, local_hash_info, session,
                   commands>>
    /\ UNCHANGED <<bvars, pvars, svars, xvars>>

\* the connection is lost
SessionDies ==
    /\ dpc \notin {"returned", "dead"}
    /\ session = "up"
    /\ session' = "down"
    /\ UNCHANGED <<local_file, options, remote_fs, dest_before, dpc, local_hash_info,
                   deploy_result, commands>>
    /\ UNCHANGED <<bvars, pvars, svars, xvars>>

\* the process is killed
ProcessDies ==
    /\ dpc \notin {"returned", "dead"}
    /\ dpc' = "dead"
    /\ UNCHANGED <<local_file, options, remote_fs, dest_before, local_hash_info, session,
                   deploy_result, commands>>
    /\ UNCHANGED <<bvars, pvars, svars, xvars>>

DeployNext ==
    \/ HashLocal
    \/ ProbeUnchanged
    \/ ProbeChanged
    \/ ApplyFileAttributes
    \/ ApplyFileOwner
    \/ Mkdir
    \/ Backup
    \/ ScpSend
    \/ CopyByte
    \/ CopyFails
    \/ CopyDone
    \/ CloseChannel
    \/ VerifyStaging
    \/ RemoveStaging
    \/ MoveToDest
    \/ CommandOnDeadSession
    \/ SessionDies
    \/ ProcessDies

InitOfDeploy == BatchIdle /\ PlaybookIdle /\ SerialIdle /\ DeployInit /\ RestIdle

SpecDeploy == InitOfDeploy /\ [][DeployNext]_vars

\* SpecAttributes: the same call over every combination of mode, owner and group
InitOfAttributes == BatchIdle /\ PlaybookIdle /\ SerialIdle /\ AttributesInit /\ RestIdle

SpecAttributes == InitOfAttributes /\ [][DeployNext]_vars

(***************************************************************************)
(* SpecRedeploy: copy_file_to_remote_with_options called a second time     *)
(* with the same local file, remote path and options, right after the      *)
(* first call returned and with nothing else touching the remote host.     *)
(***************************************************************************)
\* the inputs of the two calls: precomputed_hash is absent, the digest of the
\* local file, the digest of the file at remote_path, or of neither
RedeployInit ==
    /\ DeployInit
    /\ options.precomputed_hash \in
           {NoHash, SomeHash(Sha256(local_file)), SomeHash(Sha256(remote_fs.dest.data)),
            SomeHash(Sha256(<<"z">>))}

\* the caller invokes the function again; a caller that goes through the
\* manager gets a new session, one that holds an SshClient keeps its session
DeployAgain ==
    /\ dpc = "returned"
    /\ earlier_calls = <<>>
    /\ earlier_calls' = Append(earlier_calls, deploy_result)
    /\ dpc' = "hash_local"
    /\ dest_before' = remote_fs.dest
    /\ local_hash_info' = NoHashInfo
    /\ deploy_result' = NoDeployResult
    /\ commands' = <<>>
    /\ session' \in {session, "up"}
    /\ UNCHANGED <<local_file, options, remote_fs>>
    /\ UNCHANGED <<bvars, pvars, svars, tvars, yvars>>

RedeployNext ==
    \/ DeployNext
    \/ DeployAgain

InitOfRedeploy == BatchIdle /\ PlaybookIdle /\ SerialIdle /\ RedeployInit /\ RestIdle

SpecRedeploy == InitOfRedeploy /\ [][RedeployNext]_vars

(***************************************************************************)
(* SpecTemplate: SshClient::deploy_template, one action per remote command *)
(* or local file operation, called once and then once more with the same   *)
(* options.  The session can go down and the process can die between any   *)
(* two steps; what upload_file leaves at temp_path need not be the bytes   *)
(* that were sent.                                                         *)
(***************************************************************************)
TemplateInit ==
    /\ rendered_content \in Contents
    /\ template_options \in [backup : BOOLEAN, validate : BOOLEAN, dest_has_parent : BOOLEAN]
    /\ \E f \in Files :
           template_remote = [dest |-> f, temp_path |-> Absent, bak |-> Absent]
    /\ local_temp = Absent
    /\ changed = FALSE
    /\ tpc = "exists"
    /\ template_session = "up"
    /\ template_result = NoTemplateResult
    /\ template_commands = <<>>
    /\ template_dest_before = template_remote.dest

TDid(c) == template_commands' = Append(template_commands, c)

\* return Ok(..) / return Err(..)
TReturn(r) ==
    /\ tpc' = "returned"
    /\ template_result' = r

\* the steps that run a remote command whose error is propagated with `?`
TPropagating ==
    {"exists", "read", "backup", "upload", "mv", "attrs"}
        \cup (IF template_options.validate THEN {"validate"} ELSE {})
        \cup (IF template_options.dest_has_parent THEN {"mkdir"} ELSE {})

\* let remote_exists = self.check_file_exists(&options.dest)?; else changed = true
CheckFileExists ==
    /\ tpc = "exists"
    /\ template_session = "up"
    /\ TDid("test -f")
    /\ IF template_remote.dest.exists
       THEN tpc' = "read" /\ UNCHANGED changed
       ELSE tpc' = "write_local" /\ changed' = TRUE
    /\ UNCHANGED <<rendered_content, template_options, template_remote, local_temp,
                   template_session, template_result, template_dest_before>>
    /\ UNCHANGED <<bvars, pvars, svars, dvars, rvars, yvars>>

\* read_remote_file(dest)?: cat; exit code != 0 => Err; then
\* if remote_content != rendered_content { changed = true; .. } and, with
\* changed still false, Ok(TemplateResult { changed, .. })
ReadRemoteFile ==
    /\ tpc = "read"
    /\ template_session = "up"
    /\ TDid("cat")
    /\ \/ /\ TReturn(TemplateErr("FileOperationError"))
          /\ UNCHANGED changed
       \/ /\ template_remote.dest.data # rendered_content
          /\ changed' = TRUE
          /\ tpc' = IF template_options.backup THEN "backup" ELSE "write_local"
          /\ UNCHANGED template_result
       \/ /\ template_remote.dest.data = rendered_content
          /\ TReturn(TemplateOk(changed))
          /\ UNCHANGED changed
    /\ UNCHANGED <<rendered_content, template_options, template_remote, local_temp,
                   template_session, template_dest_before>>
    /\ UNCHANGED <<bvars, pvars, svars, dvars, rvars, yvars>>

\* backup_file(dest)?: cp dest dest.TS.backup; exit code != 0 => Err
BackupFile ==
    /\ tpc = "backup"
    /\ template_session = "up"
    /\ TDid("backup")
    /\ \/ /\ template_remote' = [template_remote EXCEPT !.bak = template_remote.dest]
          /\ tpc' = "write_local"
          /\ UNCHANGED template_result
       \/ /\ TReturn(TemplateErr("FileOperationError"))
          /\ UNCHANGED template_remote
    /\ UNCHANGED <<rendered_content, template_options, local_temp, changed, template_session,
                   template_dest_before>>
    /\ UNCHANGED <<bvars, pvars, svars, dvars, rvars, yvars>>

\* std::fs::write(&local_temp, &rendered_content).map_err(..)?
WriteLocalTemp ==
    /\ tpc = "write_local"
    /\ \/ /\ local_temp' = File(rendered_content)
          /\ tpc' = "upload"
          /\ UNCHANGED template_result
       \/ /\ TReturn(TemplateErr("FileOperationError"))
          /\ UNCHANGED local_temp
    /\ UNCHANGED <<rendered_content, template_options, template_remote, changed,
                   template_session, template_commands, template_dest_before>>
    /\ UNCHANGED <<bvars, pvars, svars, dvars, rvars, yvars>>

\* a plausible variant: the upload is verified, so that temp_path holds the
\* bytes of the local temp file whenever upload_file returns Ok
UploadedVerified(f) == f = local_temp

\* what upload_file can leave at temp_path when it returns Ok: it sends the
\* bytes and drops the channel without waiting for the remote side and without
\* looking at the result, so any file or none
Uploaded(f) == f \in Files

\* upload_file(&local_temp, &temp_path)?: scp_send(..)? and io::copy(..)?
UploadFile ==
    /\ tpc = "upload"
    /\ template_session = "up"
    /\ \/ /\ \E f \in Files :
                /\ Uploaded(f)
                /\ template_remote' = [template_remote EXCEPT !.temp_path = f]
          /\ tpc' = "validate"
          /\ TDid("scp_send")
          /\ UNCHANGED template_result
       \/ /\ TReturn(TemplateErr("Ssh2Error"))
          /\ UNCHANGED <<template_remote, template_commands>>
       \/ /\ \E n \in 0..Len(rendered_content) :
                template_remote' =
                    [template_remote EXCEPT !.temp_path = File(SubSeq(rendered_content, 1, n))]
          /\ TDid("scp_send")
          /\ TReturn(TemplateErr("FileOperationError"))
    /\ UNCHANGED <<rendered_content, template_options, local_temp, changed, template_session,
                   template_dest_before>>
    /\ UNCHANGED <<bvars, pvars, svars, dvars, rvars, yvars>>

\* if let Some(validate_cmd) = options.validate { execute_command(cmd)?;
\* exit code != 0 => cleanup and Err(ValidationError) }
Validate ==
    /\ tpc = "validate"
    /\ IF ~template_options.validate
       THEN /\ tpc' = "mkdir"
            /\ UNCHANGED template_commands
       ELSE /\ template_session = "up"
            /\ \/ tpc' = "mkdir" /\ TDid("valid")
               \/ tpc' = "rm_invalid" /\ TDid("invalid")
    /\ UNCHANGED <<rendered_content, template_options, template_remote, local_temp, changed,
                   template_session, template_result, template_dest_before>>
    /\ UNCHANGED <<bvars, pvars, svars, dvars, rvars, yvars>>

\* a plausible slip: the error is returned and the temp files are left behind
ReturnInvalidWithoutCleanup ==
    /\ tpc = "rm_invalid"
    /\ TReturn(TemplateErr("ValidationError"))
    /\ UNCHANGED <<rendered_content, template_options, template_remote, local_temp, changed,
                   template_session, template_commands, template_dest_before>>
    /\ UNCHANGED <<bvars, pvars, svars, dvars, rvars, yvars>>

\* let _ = execute_command("rm -f temp_path"); let _ = remove_file(&local_temp);
\* return Err(ValidationError(..))
RemoveInvalid ==
    /\ tpc = "rm_invalid"
    /\ IF template_session = "up"
       THEN /\ template_remote' = [template_remote EXCEPT !.temp_path = Absent]
            /\ TDid("rm")
       ELSE UNCHANGED <<template_remote, template_commands>>
    /\ local_temp' = Absent
    /\ TReturn(TemplateErr("ValidationError"))
    /\ UNCHANGED <<rendered_content, template_options, changed, template_session,
                   template_dest_before>>
    /\ UNCHANGED <<bvars, pvars, svars, dvars, rvars, yvars>>

\* if the parent of dest is not empty { execute_command("mkdir -p parent")?; }
\* the exit code is not looked at
MkdirParent ==
    /\ tpc = "mkdir"
    /\ IF ~template_options.dest_has_parent
       THEN UNCHANGED template_commands
       ELSE /\ template_session = "up"
            /\ TDid("mkdir")
    /\ tpc' = "mv"
    /\ UNCHANGED <<rendered_content, template_options, template_remote, local_temp, changed,
                   template_session, template_result, template_dest_before>>
    /\ UNCHANGED <<bvars, pvars, svars, dvars, rvars, yvars>>

\* execute_command("mv 'temp_path' 'dest'")?; exit code != 0 => remove the
\* local temp file and Err; the rename can also be done and its reply lost
\* with the connection
MoveTemplate ==
    /\ tpc = "mv"
    /\ template_session = "up"
    /\ \/ /\ template_remote.temp_path.exists
          /\ template_remote' = [template_remote EXCEPT !.dest = template_remote.temp_path,
                                                        !.temp_path = Absent]
          /\ tpc' = "attrs"
          /\ TDid("mv")
          /\ UNCHANGED <<local_temp, template_session, template_result>>
       \/ /\ TDid("mv failed")
          /\ local_temp' = Absent
          /\ TReturn(TemplateErr("FileOperationError"))
          /\ UNCHANGED <<template_remote, template_session>>
       \/ /\ template_remote.temp_path.exists
          /\ template_remote' = [template_remote EXCEPT !.dest = template_remote.temp_path,
                                                        !.temp_path = Absent]
          /\ template_session' = "down"
          /\ TDid("mv")
          /\ TReturn(TemplateErr("Ssh2Error"))
          /\ UNCHANGED local_temp
    /\ UNCHANGED <<rendered_content, template_options, changed, template_dest_before>>
    /\ UNCHANGED <<bvars, pvars, svars, dvars, rvars, yvars>>

\* set_file_attributes(dest, options)?; let _ = remove_file(&local_temp);
\* Ok(TemplateResult { changed, .. })
SetFileAttributes ==
    /\ tpc = "attrs"
    /\ template_session = "up"
    /\ TDid("attributes")
    /\ \/ /\ local_temp' = Absent
          /\ TReturn(TemplateOk(changed))
       \/ /\ TReturn(TemplateErr("FileOperationError"))
          /\ UNCHANGED local_temp
    /\ UNCHANGED <<rendered_content, template_options, template_remote, changed,
                   template_session, template_dest_before>>
    /\ UNCHANGED <<bvars, pvars, svars, dvars, rvars, yvars>>

\* execute_command(..)? (or scp_send) on a session that is down
TemplateCommandOnDeadSession ==
    /\ tpc \in TPropagating
    /\ template_session = "down"
    /\ TReturn(TemplateErr("Ssh2Error"))
    /\ UNCHANGED <<rendered_content, template_options, template_remote, local_temp, changed,
                   template_session, template_commands, template_dest_before>>
    /\ UNCHANGED <<bvars, pvars, svars, dvars, rvars, yvars>>

\* the connection is lost
TemplateSessionDies ==
    /\ tpc \notin {"idle", "returned", "dead"}
    /\ template_session = "up"
    /\ template_session' = "down"
    /\ UNCHANGED <<rendered_content, template_options, template_remote, local_temp, changed,
                   tpc, template_result, template_commands, template_dest_before>>
    /\ UNCHANGED <<bvars, pvars, svars, dvars, rvars, yvars>>

\* the process is killed
TemplateProcessDies ==
    /\ tpc \notin {"idle", "returned", "dead"}
    /\ tpc' = "dead"
    /\ UNCHANGED <<rendered_content, template_options, template_remote, local_temp, changed,
                   template_session, template_result, template_commands,
                   template_dest_before>>
    /\ UNCHANGED <<bvars, pvars, svars, dvars, rvars, yvars>>

\* the caller invokes deploy_template again with the same options, the
\* template and the variables unchanged; a caller that goes through the
\* manager gets a new session, one that holds an SshClient keeps its session
TemplateAgain ==
    /\ tpc = "returned"
    /\ earlier_calls = <<>>
    /\ earlier_calls' = Append(earlier_calls, template_result)
    /\ tpc' = "exists"
    /\ changed' = FALSE
    /\ template_dest_before' = template_remote.dest
    /\ template_result' = NoTemplateResult
    /\ template_commands' = <<>>
    /\ template_session' \in {template_session, "up"}
    /\ UNCHANGED <<rendered_content, template_options, template_remote, local_temp>>
    /\ UNCHANGED <<bvars, pvars, svars, dvars, yvars>>

TemplateNext ==
    \/ CheckFileExists
    \/ ReadRemoteFile
    \/ BackupFile
    \/ WriteLocalTemp
    \/ UploadFile
    \/ Validate
    \/ RemoveInvalid
    \/ MkdirParent
    \/ MoveTemplate
    \/ SetFileAttributes
    \/ TemplateCommandOnDeadSession
    \/ TemplateSessionDies
    \/ TemplateProcessDies
    \/ TemplateAgain

InitOfTemplate ==
    /\ BatchIdle /\ PlaybookIdle /\ SerialIdle /\ DeployIdle /\ RedeployIdle
    /\ TemplateInit
    /\ SuffixIdle /\ TempFilesIdle /\ UserIdle /\ ConnectIdle /\ ScriptsIdle /\ ExitIdle

SpecTemplate == InitOfTemplate /\ [][TemplateNext]_vars

(***************************************************************************)
(* SpecSuffix: successive calls of generate_temp_suffix (utils.rs), as in  *)
(* test_temp_suffix_uniqueness, with the clock advancing or not between    *)
(* two calls and every call drawing its own random number.                 *)
(***************************************************************************)
Digit(d) ==
    CASE d = 0 -> "0" [] d = 1 -> "1" [] d = 2 -> "2" [] d = 3 -> "3" [] d = 4 -> "4"
      [] d = 5 -> "5" [] d = 6 -> "6" [] d = 7 -> "7" [] d = 8 -> "8" [] d = 9 -> "9"

\* "{}" of an unsigned integer: its decimal digits, no padding
RECURSIVE Display(_)
Display(n) == IF n < 10 THEN <<Digit(n)>> ELSE Append(Display(n \div 10), Digit(n % 10))

\* a plausible variant: a per-process counter in the place of the random number
GenerateTempSuffixCounted(clock, random_suffix) ==
    Display(clock.timestamp) \o <<".">> \o Display(clock.nanos) \o <<".">>
        \o Display(Len(suffixes))

\* format!("{}.{}.{}", timestamp, nanos, random_suffix)
GenerateTempSuffix(clock, random_suffix) ==
    Display(clock.timestamp) \o <<".">> \o Display(clock.nanos) \o <<".">>
        \o Display(random_suffix)

\* the readings chrono::Utc::now() can return after it returned clock
LaterReadings(clock) ==
    {c \in [timestamp : 0..MaxTimestamp, nanos : 0..MaxNanos] :
        \/ c.timestamp > clock.timestamp
        \/ c.timestamp = clock.timestamp /\ c.nanos > clock.nanos}

SuffixInit ==
    /\ now \in [timestamp : 0..MaxTimestamp, nanos : 0..MaxNanos]
    /\ suffixes = <<>>

\* time passes
ClockAdvances ==
    /\ \E c \in LaterReadings(now) : now' = c
    /\ UNCHANGED suffixes
    /\ UNCHANGED not_g

\* let suffix = generate_temp_suffix(); suffixes.insert(suffix)
NextSuffix ==
    /\ Len(suffixes) < MaxSuffixes
    /\ \E random_suffix \in 0..MaxRandom :
           suffixes' = Append(suffixes, GenerateTempSuffix(now, random_suffix))
    /\ UNCHANGED now
    /\ UNCHANGED not_g

SuffixNext ==
    \/ ClockAdvances
    \/ NextSuffix

InitOfSuffix ==
    /\ BatchIdle /\ PlaybookIdle /\ SerialIdle /\ DeployIdle /\ RedeployIdle /\ TemplateIdle
    /\ SuffixInit
    /\ TempFilesIdle /\ UserIdle /\ ConnectIdle /\ ScriptsIdle /\ ExitIdle

SpecSuffix == InitOfSuffix /\ [][SuffixNext]_vars

(***************************************************************************)
(* SpecTempFiles: the workers of one batch that runs deploy_template or    *)
(* copy_file_to_remote_with_options on every host with the same options,   *)
(* reduced to what they do with their temp files: name them, create them,  *)
(* read them, move or remove them.  The workers run in parallel (SpecBatch)*)
(* and the host list can name a host twice.                                *)
(***************************************************************************)
TempWorkers == 1..MaxTempWorkers

NoPath == <<>>

\* format!("/tmp/rs_ansible_template_{}.tmp", chrono::Utc::now().timestamp())
TemplateTempPath(clock) ==
    <<"/tmp/rs_ansible_template_">> \o Display(clock.timestamp) \o <<".tmp">>

\* format!("/tmp/rs_ansible_local_template_{}.tmp", chrono::Utc::now().timestamp())
TemplateLocalTemp(clock) ==
    <<"/tmp/rs_ansible_local_template_">> \o Display(clock.timestamp) \o <<".tmp">>

\* format!("{}.tmp.{}", base_path, generate_temp_suffix())
GenerateRemoteTempPath(base_path, clock, random_suffix) ==
    <<base_path, ".tmp.">> \o GenerateTempSuffix(clock, random_suffix)

TempFilesInit ==
    /\ operation \in {"template", "file"}
    /\ worker_host \in [TempWorkers -> {"a", "b"}]
    /\ temp_worker = [w \in TempWorkers |->
                         [pc |-> "start", temp_path |-> NoPath, local_temp |-> NoPath,
                          result |-> ""]]
    /\ local_files = {}
    /\ remote_files = {}
    /\ now \in [timestamp : 0..MaxTimestamp, nanos : 0..MaxNanos]
    /\ suffixes = <<>>

Staging(w) == <<worker_host[w], temp_worker[w].temp_path>>

\* let temp_path = format!(.., chrono::Utc::now().timestamp());
NameTempPath(w) ==
    /\ operation = "template"
    /\ temp_worker[w].pc = "start"
    /\ temp_worker' = [temp_worker EXCEPT ![w].pc = "name_local",
                                          ![w].temp_path = TemplateTempPath(now)]
    /\ UNCHANGED <<operation, worker_host, local_files, remote_files>>
    /\ UNCHANGED <<gvars, not_w>>

\* let local_temp = format!(.., chrono::Utc::now().timestamp());
NameLocalTemp(w) ==
    /\ temp_worker[w].pc = "name_local"
    /\ temp_worker' = [temp_worker EXCEPT ![w].pc = "write",
                                          ![w].local_temp = TemplateLocalTemp(now)]
    /\ UNCHANGED <<operation, worker_host, local_files, remote_files>>
    /\ UNCHANGED <<gvars, not_w>>

\* std::fs::write(&local_temp, &rendered_content)
WriteTemp(w) ==
    /\ temp_worker[w].pc = "write"
    /\ local_files' = local_files \cup {temp_worker[w].local_temp}
    /\ temp_worker' = [temp_worker EXCEPT ![w].pc = "upload"]
    /\ UNCHANGED <<operation, worker_host, remote_files>>
    /\ UNCHANGED <<gvars, not_w>>

\* upload_file: std::fs::metadata(local_path)? and scp_send(remote_path, ..)
UploadSend(w) ==
    /\ temp_worker[w].pc = "upload"
    /\ IF temp_worker[w].local_temp \in local_files
       THEN /\ remote_files' = remote_files \cup {Staging(w)}
            /\ temp_worker' = [temp_worker EXCEPT ![w].pc = "copy"]
       ELSE /\ temp_worker' = [temp_worker EXCEPT ![w].pc = "done",
                                                 ![w].result = "FileOperationError"]
            /\ UNCHANGED remote_files
    /\ UNCHANGED <<operation, worker_host, local_files>>
    /\ UNCHANGED <<gvars, not_w>>

\* upload_file: File::open(local_path)? and io::copy
UploadCopy(w) ==
    /\ temp_worker[w].pc = "copy"
    /\ IF temp_worker[w].local_temp \in local_files
       THEN temp_worker' = [temp_worker EXCEPT ![w].pc = "mv"]
       ELSE temp_worker' = [temp_worker EXCEPT ![w].pc = "done",
                                               ![w].result = "FileOperationError"]
    /\ UNCHANGED <<operation, worker_host, local_files, remote_files>>
    /\ UNCHANGED <<gvars, not_w>>

\* mv 'temp_path' 'dest'; exit code != 0 => remove_file(&local_temp) and Err
MoveTemp(w) ==
    /\ temp_worker[w].pc = "mv"
    /\ IF Staging(w) \in remote_files
       THEN /\ remote_files' = remote_files \ {Staging(w)}
            /\ temp_worker' = [temp_worker EXCEPT ![w].pc = "cleanup"]
            /\ UNCHANGED local_files
       ELSE /\ local_files' = local_files \ {temp_worker[w].local_temp}
            /\ temp_worker' = [temp_worker EXCEPT ![w].pc = "done",
                                                 ![w].result = "FileOperationError"]
            /\ UNCHANGED remote_files
    /\ UNCHANGED <<operation, worker_host>>
    /\ UNCHANGED <<gvars, not_w>>

\* let _ = std::fs::remove_file(&local_temp); Ok(..)
CleanupTemp(w) ==
    /\ temp_worker[w].pc = "cleanup"
    /\ local_files' = local_files \ {temp_worker[w].local_temp}
    /\ temp_worker' = [temp_worker EXCEPT ![w].pc = "done", ![w].result = "Ok"]
    /\ UNCHANGED <<operation, worker_host, remote_files>>
    /\ UNCHANGED <<gvars, not_w>>

\* let temp_remote_path = generate_remote_temp_path(remote_path);
NameStaging(w) ==
    /\ operation = "file"
    /\ temp_worker[w].pc = "start"
    /\ \E random_suffix \in 0..MaxRandom :
           temp_worker' =
               [temp_worker EXCEPT
                   ![w].pc = "send",
                   ![w].temp_path = GenerateRemoteTempPath("dest", now, random_suffix)]
    /\ UNCHANGED <<operation, worker_host, local_files, remote_files>>
    /\ UNCHANGED <<gvars, not_w>>

\* scp_send(temp_remote_path, ..), io::copy, close
SendStaging(w) ==
    /\ temp_worker[w].pc = "send"
    /\ remote_files' = remote_files \cup {Staging(w)}
    /\ temp_worker' = [temp_worker EXCEPT ![w].pc = "verify"]
    /\ UNCHANGED <<operation, worker_host, local_files>>
    /\ UNCHANGED <<gvars, not_w>>

\* get_remote_file_hash(temp_remote_path): None => Err; else mv 'temp' 'dest'
VerifyAndMove(w) ==
    /\ temp_worker[w].pc = "verify"
    /\ IF Staging(w) \in remote_files
       THEN /\ remote_files' = remote_files \ {Staging(w)}
            /\ temp_worker' = [temp_worker EXCEPT ![w].pc = "done", ![w].result = "Ok"]
       ELSE /\ temp_worker' = [temp_worker EXCEPT ![w].pc = "done",
                                                 ![w].result = "FileOperationError"]
            /\ UNCHANGED remote_files
    /\ UNCHANGED <<operation, worker_host, local_files>>
    /\ UNCHANGED <<gvars, not_w>>

TempFilesNext ==
    \/ ClockAdvances
    \/ \E w \in TempWorkers :
           \/ NameTempPath(w)
           \/ NameLocalTemp(w)
           \/ WriteTemp(w)
           \/ UploadSend(w)
           \/ UploadCopy(w)
           \/ MoveTemp(w)
           \/ CleanupTemp(w)
           \/ NameStaging(w)
           \/ SendStaging(w)
           \/ VerifyAndMove(w)

InitOfTempFiles ==
    /\ BatchIdle /\ PlaybookIdle /\ SerialIdle /\ DeployIdle /\ RedeployIdle /\ TemplateIdle
    /\ TempFilesInit
    /\ UserIdle /\ ConnectIdle /\ ScriptsIdle /\ ExitIdle

SpecTempFiles == InitOfTempFiles /\ [][TempFilesNext]_vars

(***************************************************************************)
(* SpecUser: SshClient::manage_user, one action per remote command, called *)
(* once and then once more with the same options.  A text is a sequence of *)
(* characters; the command line is built as the code builds it, split into *)
(* words as a POSIX shell splits it, and read by useradd / usermod; the    *)
(* passwd entry is printed by getent and parsed as the code parses it.     *)
(***************************************************************************)
RECURSIVE TextsUpTo(_, _)
TextsUpTo(S, n) ==
    IF n = 0 THEN {<<>>}
    ELSE LET shorter == TextsUpTo(S, n - 1)
         IN  shorter \cup {Append(t, x) : t \in shorter, x \in S}

Name == <<"n">>

UserOptionsPresent ==
    [state : {"present"},
     uid : {None, Some(7)},
     group : {None, Some(<<"g">>)},
     groups : {None},
     home : {None} \cup {Some(t) : t \in TextsUpTo({"/", " "}, MaxWordLen)},
     shell : {None, Some(<<"/", "s">>), Some(<<"/", "s", " ">>)},
     password : {None, Some(<<"p">>)},
     comment : {None} \cup {Some(t) : t \in TextsUpTo({"c", "'", ":"}, MaxWordLen)},
     create_home : {TRUE},
     system : {FALSE},
     expires : {None}]

UserOptionsAbsent ==
    [state : {"absent"}, uid : {None}, group : {None}, groups : {None}, home : {None},
     shell : {None}, password : {None}, comment : {None}, create_home : {TRUE},
     system : {FALSE}, expires : {None}]

UserInit ==
    /\ user_options \in UserOptionsPresent \cup UserOptionsAbsent
    /\ passwd \in {NoUser, User(7, <<>>, <<"/">>, <<"/", "s">>),
                   User(8, <<"c">>, <<"/", "/">>, <<"/", "s">>)}
    /\ upc = "check"
    /\ current_info = NoUser
    /\ user_result = NoUserResult
    /\ user_commands = <<>>
    /\ user_before = passwd

\* comment.replace("'", "'\\''")
RECURSIVE EscapeQuotes(_)
EscapeQuotes(t) ==
    IF t = <<>> THEN <<>>
    ELSE (IF Head(t) = "'" THEN <<"'", "\\", "'", "'">> ELSE <<Head(t)>>)
             \o EscapeQuotes(Tail(t))

\* the flags useradd and usermod are both given
CommonFlags(o) ==
    (IF o.uid.some THEN <<" ", "-u", " ">> \o Display(o.uid.v) ELSE <<>>)
        \o (IF o.group.some THEN <<" ", "-g", " ">> \o o.group.v ELSE <<>>)
        \o (IF o.groups.some THEN <<" ", "-G", " ">> \o o.groups.v ELSE <<>>)
        \o (IF o.home.some THEN <<" ", "-d", " ">> \o o.home.v ELSE <<>>)
        \o (IF o.shell.some THEN <<" ", "-s", " ">> \o o.shell.v ELSE <<>>)
        \o (IF o.comment.some
            THEN <<" ", "-c", " ", "'">> \o EscapeQuotes(o.comment.v) \o <<"'">>
            ELSE <<>>)

\* create_user: the useradd command line
UseraddCommand(o) ==
    <<"useradd">> \o CommonFlags(o)
        \o (IF o.create_home THEN <<" ", "-m">> ELSE <<" ", "-M">>)
        \o (IF o.system THEN <<" ", "-r">> ELSE <<>>)
        \o (IF o.expires.some THEN <<" ", "-e", " ">> \o o.expires.v ELSE <<>>)
        \o <<" ">> \o Name

\* modify_user: the usermod command line
UsermodCommand(o) ==
    <<"usermod">> \o CommonFlags(o)
        \o (IF o.expires.some THEN <<" ", "-e", " ">> \o o.expires.v ELSE <<>>)
        \o <<" ">> \o Name

\* the remote shell splits a command line into words: blanks separate words,
\* '..' quotes, a backslash outside quotes escapes the next character
RECURSIVE ShellSplit(_, _, _, _, _, _)
ShellSplit(line, i, cur, in_word, in_quote, words) ==
    IF i > Len(line)
    THEN [ok |-> ~in_quote, words |-> IF in_word THEN Append(words, cur) ELSE words]
    ELSE LET c == line[i] IN
         IF in_quote
         THEN IF c = "'"
              THEN ShellSplit(line, i + 1, cur, TRUE, FALSE, words)
              ELSE ShellSplit(line, i + 1, Append(cur, c), TRUE, TRUE, words)
         ELSE IF c = " "
              THEN ShellSplit(line, i + 1, <<>>, FALSE, FALSE,
                              IF in_word THEN Append(words, cur) ELSE words)
              ELSE IF c = "'"
                   THEN ShellSplit(line, i + 1, cur, TRUE, TRUE, words)
                   ELSE IF c = "\\" /\ i < Len(line)
                        THEN ShellSplit(line, i + 2, Append(cur, line[i + 1]), TRUE, FALSE,
                                        words)
                        ELSE ShellSplit(line, i + 1, Append(cur, c), TRUE, FALSE, words)

ShellWords(line) == ShellSplit(line, 1, <<>>, FALSE, FALSE, <<>>)

ValueFlags == {<<"-u">>, <<"-g">>, <<"-G">>, <<"-d">>, <<"-s">>, <<"-c">>, <<"-e">>}
PlainFlags == {<<"-m">>, <<"-M">>, <<"-r">>}

\* useradd / usermod read their arguments: a flag that takes a value takes the
\* next word, whatever it is
RECURSIVE ParseArgs(_, _, _)
ParseArgs(words, i, acc) ==
    IF i > Len(words) THEN acc
    ELSE IF words[i] \in ValueFlags
         THEN IF i = Len(words)
              THEN [acc EXCEPT !.ok = FALSE]
              ELSE ParseArgs(words, i + 2,
                             [acc EXCEPT !.values =
                                 [f \in (DOMAIN acc.values) \cup {words[i]} |->
                                     IF f = words[i] THEN words[i + 1] ELSE acc.values[f]]])
         ELSE IF words[i] \in PlainFlags
              THEN ParseArgs(words, i + 1, acc)
              ELSE ParseArgs(words, i + 1, [acc EXCEPT !.names = Append(acc.names, words[i])])

Args(words) == ParseArgs(words, 2, [ok |-> TRUE, values |-> <<>>, names |-> <<>>])

IsDigit(c) == c \in {"0", "1", "2", "3", "4", "5", "6", "7", "8", "9"}

DigitValue(c) ==
    CASE c = "0" -> 0 [] c = "1" -> 1 [] c = "2" -> 2 [] c = "3" -> 3 [] c = "4" -> 4
      [] c = "5" -> 5 [] c = "6" -> 6 [] c = "7" -> 7 [] c = "8" -> 8 [] c = "9" -> 9

IsNumber(t) == t # <<>> /\ \A k \in DOMAIN t : IsDigit(t[k])

\* str::parse::<u32>() of a text of digits
RECURSIVE ParseNumber(_)
ParseNumber(t) ==
    IF t = <<>> THEN 0
    ELSE ParseNumber(SubSeq(t, 1, Len(t) - 1)) * 10 + DigitValue(t[Len(t)])

IsPath(t) == t # <<>> /\ t[1] = "/" /\ ":" \notin Range(t)

\* what useradd and usermod accept: one user name, a number as uid, absolute
\* paths without ':' as home and shell, a comment without ':'
ArgsValid(a) ==
    /\ a.ok
    /\ a.names = <<Name>>
    /\ <<"-u">> \in DOMAIN a.values => IsNumber(a.values[<<"-u">>])
    /\ <<"-d">> \in DOMAIN a.values => IsPath(a.values[<<"-d">>])
    /\ <<"-s">> \in DOMAIN a.values => IsPath(a.values[<<"-s">>])
    /\ <<"-c">> \in DOMAIN a.values => ":" \notin Range(a.values[<<"-c">>])

\* the passwd entry after useradd / usermod has applied the arguments to entry
Applied(a, entry) ==
    [exists  |-> TRUE,
     uid     |-> IF <<"-u">> \in DOMAIN a.values THEN ParseNumber(a.values[<<"-u">>])
                                                ELSE entry.uid,
     gid     |-> entry.gid,
     comment |-> IF <<"-c">> \in DOMAIN a.values THEN a.values[<<"-c">>] ELSE entry.comment,
     home    |-> IF <<"-d">> \in DOMAIN a.values THEN a.values[<<"-d">>] ELSE entry.home,
     shell   |-> IF <<"-s">> \in DOMAIN a.values THEN a.values[<<"-s">>] ELSE entry.shell]

\* the entry useradd starts from: the next free uid, /home/NAME, the default shell
NewUser == User(9, <<>>, <<"/", "h">>, <<"/", "s">>)

\* getent passwd NAME prints name:x:uid:gid:comment:home:shell and a newline
PasswdLine(entry) ==
    Name \o <<":", "x", ":">> \o Display(entry.uid) \o <<":">> \o Display(entry.gid)
        \o <<":">> \o entry.comment \o <<":">> \o entry.home \o <<":">> \o entry.shell
        \o <<"\n">>

IsSpace(c) == c \in {" ", "\n"}

\* str::trim()
RECURSIVE Trim(_)
Trim(t) ==
    IF t = <<>> THEN t
    ELSE IF IsSpace(t[1]) THEN Trim(Tail(t))
    ELSE IF IsSpace(t[Len(t)]) THEN Trim(SubSeq(t, 1, Len(t) - 1))
    ELSE t

\* str::split(':')
RECURSIVE Split(_, _, _)
Split(t, cur, parts) ==
    IF t = <<>> THEN Append(parts, cur)
    ELSE IF Head(t) = ":" THEN Split(Tail(t), <<>>, Append(parts, cur))
    ELSE Split(Tail(t), Append(cur, Head(t)), parts)

\* get_user_info, after the exit code: the parse of the line into UserInfo
ParseUserInfo(stdout) ==
    LET parts == Split(Trim(stdout), <<>>, <<>>) IN
    IF Len(parts) < 7 \/ ~IsNumber(parts[3]) \/ ~IsNumber(parts[4])
    THEN NoUser
    ELSE [exists |-> TRUE, uid |-> ParseNumber(parts[3]), gid |-> ParseNumber(parts[4]),
          comment |-> parts[5], home |-> parts[6], shell |-> parts[7]]

\* a plausible variant: the comment is compared even when the option is None
CheckUserNeedsUpdateComment(current, o) ==
    \/ o.uid.some /\ current.uid # o.uid.v
    \/ o.home.some /\ current.home # o.home.v
    \/ o.shell.some /\ current.shell # o.shell.v
    \/ current.comment # o.comment.v
    \/ o.group.some \/ o.groups.some

\* check_user_needs_update
CheckUserNeedsUpdate(current, o) ==
    \/ o.uid.some /\ current.uid # o.uid.v
    \/ o.home.some /\ current.home # o.home.v
    \/ o.shell.some /\ current.shell # o.shell.v
    \/ o.comment.some /\ current.comment # o.comment.v
    \/ o.group.some \/ o.groups.some

UDid(c) == user_commands' = Append(user_commands, c)

UReturn(r) ==
    /\ upc' = "returned"
    /\ user_result' = r

\* check_user_exists(&options.name)?: id -u NAME, and the branch taken on it
CheckUserExists ==
    /\ upc = "check"
    /\ UDid("id")
    /\ IF user_options.state = "present"
       THEN /\ upc' = IF passwd.exists THEN "info" ELSE "create"
            /\ UNCHANGED user_result
       ELSE IF passwd.exists
            THEN upc' = "delete" /\ UNCHANGED user_result
            ELSE UReturn(UserOk(FALSE))
    /\ UNCHANGED <<user_options, passwd, current_info, user_before>>
    /\ UNCHANGED <<rvars, not_u>>

\* create_user: useradd ..; exit code != 0 => Err(CommandError)
CreateUser ==
    /\ upc = "create"
    /\ UDid("useradd")
    /\ LET words == ShellWords(UseraddCommand(user_options)) IN
       \/ /\ words.ok
          /\ ArgsValid(Args(words.words))
          /\ passwd' = Applied(Args(words.words), NewUser)
          /\ upc' = IF user_options.password.some THEN "passwd_created" ELSE "info_created"
          /\ UNCHANGED user_result
       \/ /\ UReturn(UserErr("CommandError"))
          /\ UNCHANGED passwd
    /\ UNCHANGED <<user_options, current_info, user_before>>
    /\ UNCHANGED <<rvars, not_u>>

\* modify_user: usermod ..; exit code != 0 => Err(CommandError)
ModifyUser ==
    /\ upc = "modify"
    /\ UDid("usermod")
    /\ LET words == ShellWords(UsermodCommand(user_options)) IN
       \/ /\ words.ok
          /\ ArgsValid(Args(words.words))
          /\ passwd' = Applied(Args(words.words), passwd)
          /\ upc' = IF user_options.password.some THEN "passwd_updated" ELSE "info_updated"
          /\ UNCHANGED user_result
       \/ /\ UReturn(UserErr("CommandError"))
          /\ UNCHANGED passwd
    /\ UNCHANGED <<user_options, current_info, user_before>>
    /\ UNCHANGED <<rvars, not_u>>

\* set_user_password: echo 'NAME:PASSWORD' | chpasswd -e; exit code != 0 => Err
SetUserPassword ==
    /\ upc \in {"passwd_created", "passwd_updated"}
    /\ UDid("chpasswd")
    /\ \/ /\ upc' = IF upc = "passwd_created" THEN "info_created" ELSE "info_updated"
          /\ UNCHANGED user_result
       \/ UReturn(UserErr("CommandError"))
    /\ UNCHANGED <<user_options, passwd, current_info, user_before>>
    /\ UNCHANGED <<rvars, not_u>>

\* get_user_info(&options.name)?, and what ensure_user_present does with it
GetUserInfo ==
    /\ upc \in {"info", "info_created", "info_updated"}
    /\ UDid("getent")
    /\ LET info == IF passwd.exists THEN ParseUserInfo(PasswdLine(passwd)) ELSE NoUser IN
       IF ~info.exists
       THEN /\ UReturn(UserErr("CommandError"))
            /\ UNCHANGED current_info
       ELSE IF upc = "info"
            THEN /\ current_info' = info
                 /\ IF CheckUserNeedsUpdate(info, user_options)
                    THEN upc' = "modify" /\ UNCHANGED user_result
                    ELSE UReturn(UserOk(FALSE))
            ELSE /\ UReturn(UserOk(TRUE))
                 /\ UNCHANGED current_info
    /\ UNCHANGED <<user_options, passwd, user_before>>
    /\ UNCHANGED <<rvars, not_u>>

\* delete_user: userdel -r NAME; exit code != 0 => Err(CommandError)
DeleteUser ==
    /\ upc = "delete"
    /\ UDid("userdel")
    /\ \/ /\ passwd' = NoUser
          /\ UReturn(UserOk(TRUE))
       \/ /\ UReturn(UserErr("CommandError"))
          /\ UNCHANGED passwd
    /\ UNCHANGED <<user_options, current_info, user_before>>
    /\ UNCHANGED <<rvars, not_u>>

\* execute_command(..)? fails in the channel: the error is propagated
UserCommandFails ==
    /\ upc \notin {"idle", "returned"}
    /\ UReturn(UserErr("Ssh2Error"))
    /\ UNCHANGED <<user_options, passwd, current_info, user_commands, user_before>>
    /\ UNCHANGED <<rvars, not_u>>

\* the caller invokes manage_user again with the same options
UserAgain ==
    /\ upc = "returned"
    /\ earlier_calls = <<>>
    /\ earlier_calls' = Append(earlier_calls, [result |-> user_result, before |-> user_before])
    /\ upc' = "check"
    /\ current_info' = NoUser
    /\ user_result' = NoUserResult
    /\ user_commands' = <<>>
    /\ user_before' = passwd
    /\ UNCHANGED <<user_options, passwd>>
    /\ UNCHANGED not_u

UserNext ==
    \/ CheckUserExists
    \/ CreateUser
    \/ ModifyUser
    \/ SetUserPassword
    \/ GetUserInfo
    \/ DeleteUser
    \/ UserCommandFails
    \/ UserAgain

InitOfUser ==
    /\ BatchIdle /\ PlaybookIdle /\ SerialIdle /\ DeployIdle /\ RedeployIdle /\ TemplateIdle
    /\ SuffixIdle /\ TempFilesIdle
    /\ UserInit
    /\ ConnectIdle /\ ScriptsIdle /\ ExitIdle

SpecUser == InitOfUser /\ [][UserNext]_vars

(***************************************************************************)
(* SpecConnect: SshClient::new, the retry loop around connect_once, one    *)
(* action per step of connect_once.                                        *)
(***************************************************************************)
max_retries == 3
retry_delay == 1000

ConnectInit ==
    /\ config \in [private_key_path : BOOLEAN, password : BOOLEAN]
    /\ attempt = 1
    /\ cpc = "backoff"
    /\ last_error = NoConnectResult
    /\ connect_result = NoConnectResult
    /\ attempts = <<>>
    /\ slept = <<>>

\* a plausible variant: one more turn of the loop
LoopEndsLate(a) == a > max_retries

\* for attempt in 1..=max_retries: a was the last turn
LoopEnds(a) == a >= max_retries

\* if attempt > 1 { thread::sleep(retry_delay * (attempt - 1)) }
Backoff ==
    /\ cpc = "backoff"
    /\ slept' = IF attempt > 1 THEN Append(slept, retry_delay * (attempt - 1)) ELSE slept
    /\ cpc' = "tcp"
    /\ UNCHANGED <<config, attempt, last_error, connect_result, attempts>>
    /\ UNCHANGED not_c

\* Err(e) => last_error = Some(e), and the loop goes on; after the loop
\* Err(last_error.unwrap_or_else(..))
ConnectOnceFails(e) ==
    /\ attempts' = Append(attempts, e)
    /\ last_error' = e
    /\ IF LoopEnds(attempt)
       THEN /\ cpc' = "returned"
            /\ connect_result' = e
            /\ UNCHANGED attempt
       ELSE /\ cpc' = "backoff"
            /\ attempt' = attempt + 1
            /\ UNCHANGED connect_result
    /\ UNCHANGED <<config, slept>>
    /\ UNCHANGED not_c

ConnectOnceStep(next) ==
    /\ cpc' = next
    /\ UNCHANGED <<config, attempt, last_error, connect_result, attempts, slept>>
    /\ UNCHANGED not_c

\* TcpStream::connect(..).map_err(SshConnectionError)?
TcpConnect ==
    /\ cpc = "tcp"
    /\ \/ ConnectOnceStep("handshake")
       \/ ConnectOnceFails(ConnectErr("SshConnectionError", "Failed to connect"))

\* Session::new()?; session.handshake().map_err(SshConnectionError)?
Handshake ==
    /\ cpc = "handshake"
    /\ \/ ConnectOnceStep("auth")
       \/ ConnectOnceFails(ConnectErr("Ssh2Error", "Session::new"))
       \/ ConnectOnceFails(ConnectErr("SshConnectionError", "SSH Handshake failed"))

\* userauth_pubkey_file(..)? if a key is set, else userauth_password(..)? if a
\* password is set, else Err(AuthenticationError)
Authenticate ==
    /\ cpc = "auth"
    /\ IF config.private_key_path
       THEN \/ ConnectOnceStep("authenticated")
            \/ ConnectOnceFails(ConnectErr("Ssh2Error", "userauth_pubkey_file"))
       ELSE IF config.password
            THEN \/ ConnectOnceStep("authenticated")
                 \/ ConnectOnceFails(ConnectErr("Ssh2Error", "userauth_password"))
            ELSE ConnectOnceFails(ConnectErr("AuthenticationError",
                                             "No authentication method provided"))

\* if !session.authenticated() { Err(AuthenticationError) }; Ok(Self {..}), and
\* in new: Ok(client) => return Ok(client)
CheckAuthenticated ==
    /\ cpc = "authenticated"
    /\ \/ /\ attempts' = Append(attempts, Connected)
          /\ cpc' = "returned"
          /\ connect_result' = Connected
          /\ UNCHANGED <<config, attempt, last_error, slept>>
          /\ UNCHANGED not_c
       \/ ConnectOnceFails(ConnectErr("AuthenticationError", "Authentication failed"))

ConnectNext ==
    \/ Backoff
    \/ TcpConnect
    \/ Handshake
    \/ Authenticate
    \/ CheckAuthenticated

InitOfConnect ==
    /\ BatchIdle /\ PlaybookIdle /\ SerialIdle /\ DeployIdle /\ RedeployIdle /\ TemplateIdle
    /\ SuffixIdle /\ TempFilesIdle /\ UserIdle
    /\ ConnectInit
    /\ ScriptsIdle /\ ExitIdle

SpecConnect == InitOfConnect /\ [][ConnectNext]_vars

(***************************************************************************)
(* Claims about execute_concurrent_operation and BatchResult.              *)
(***************************************************************************)
Holders == {i \in Workers : wpc[i] \in {"session", "operation"}}
Spawned == {i \in Workers : wpc[i] # "none"}
Count(s, h) == Cardinality({k \in DOMAIN s : s[k] = h})
LastIndexOf(h) == CHOOSE k \in Workers :
                      /\ host_names[k] = h
                      /\ \A m \in Workers : host_names[m] = h => m <= k

\* C1: in every reachable state the number of workers that hold a permit
\* (constructing a session or running the operation) is at most
\* max_concurrent_connections.
C1_PermitBound ==
    Cardinality(Holders) <= max_concurrent_connections

\* C1 witness: the semaphore is exhausted while another worker waits for a permit.
C1_Witness ==
    /\ max_concurrent_connections >= 1
    /\ Cardinality(Holders) = max_concurrent_connections
    /\ \E i \in Workers : wpc[i] = "spawned"

\* C2: when the call returns every spawned worker has finished and its outcome
\* is the entry of results under its host id (no outcome is lost).
C2_NoOutcomeLost ==
    bpc = "done" =>
        \A i \in Spawned :
            /\ wpc[i] = "finished"
            /\ host_names[i] \in DOMAIN result.results
            /\ result.results[host_names[i]] = wout[i]

\* C3 as claimed: the result map has as many entries as the host list has elements.
C3_OneEntryPerListElement ==
    bpc = "done" => Cardinality(DOMAIN result.results) = Len(host_names)

\* C3 as amended: the result map has exactly one entry per distinct host id of
\* the host list (known or unknown), so |results| is the number of distinct ids.
C3_OneEntryPerDistinctHost ==
    bpc = "done" =>
        /\ DOMAIN result.results = Range(host_names)
        /\ Cardinality(DOMAIN result.results) = Cardinality(Range(host_names))

\* C3 witness: a returned call whose list mixes known and unknown ids and repeats one.
C3_Witness ==
    /\ bpc = "done"
    /\ Len(host_names) = 3
    /\ Cardinality(Range(host_names)) = 2
    /\ Range(host_names) \cap Inventory # {}
    /\ Range(host_names) \ Inventory # {}
    /\ \E i \in Workers : wpc[i] = "finished" /\ ~wout[i].ok

\* C4: every key of results appears exactly once in exactly one of successful
\* and failed, the two lists share no host id, and they hold only keys of results.
C4_ListsPartitionKeys ==
    /\ \A h \in DOMAIN result.results :
           Count(result.successful, h) + Count(result.failed, h) = 1
    /\ Range(result.successful) \cap Range(result.failed) = {}
    /\ Range(result.successful) \cup Range(result.failed) \subseteq DOMAIN result.results

\* C5: an id of the list that is not in the inventory never gets a worker, its
\* entry is the "Host X not found" connection error from the moment the spawn
\* loop passes it, and when the call returns every known host of the list has
\* been executed (its worker ran to the end and its id has an entry).
C5_UnknownHostRecorded ==
    /\ \A i \in Workers :
           host_names[i] \notin Inventory =>
               /\ wpc[i] = "none"
               /\ i \notin Range(handles)
               /\ spawn_i > i =>
                      /\ host_names[i] \in DOMAIN result.results
                      /\ result.results[host_names[i]] = HostNotFound(host_names[i])
                      /\ result.results[host_names[i]].kind = "SshConnectionError"
    /\ bpc = "done" =>
           \A i \in Workers :
               host_names[i] \in Inventory =>
                   /\ wpc[i] = "finished"
                   /\ host_names[i] \in DOMAIN result.results

\* C5 witness: the call returned, an unknown id precedes a known host in the
\* list, and that known host's operation ran and succeeded.
C5_Witness ==
    /\ bpc = "done"
    /\ \E i, j \in Workers :
           /\ i < j
           /\ host_names[i] \notin Inventory
           /\ host_names[j] \in Inventory
           /\ wout[j] = OkValue
           /\ result.results[host_names[i]] = HostNotFound(host_names[i])

\* C6: the result recorded for host h is a function of h's own outcome alone
\* (the not-found error for an unknown id, else what h's own worker returned,
\* the last one when the list repeats h): whatever happens to the workers of
\* the other hosts, two runs that agree on h's outcome record the same for h.
C6_ResultDependsOnOwnOutcome ==
    bpc = "done" =>
        \A h \in Range(host_names) :
            /\ h \in DOMAIN result.results
            /\ result.results[h] = IF h \in Inventory THEN wout[LastIndexOf(h)]
                                   ELSE HostNotFound(h)

\* C6 witness: host g failed (session or operation) before h in the join order
\* and h's success is recorded all the same.
C6_Witness ==
    /\ bpc = "done"
    /\ \E i, j \in Workers :
           /\ i < j
           /\ host_names[i] # host_names[j]
           /\ host_names[i] \in Inventory
           /\ ~wout[i].ok
           /\ wout[j] = OkValue
           /\ result.results[host_names[j]] = OkValue
           /\ result.results[host_names[i]] = wout[i]

(***************************************************************************)
(* Claims about execute_task and execute_playbook.  trace[k] is the k-th   *)
(* iteration of the task loop, which ran tasks[k].                         *)
(***************************************************************************)
\* the failed_hosts set after the k-th iteration
FailedAfter(k) == IF k < Len(trace) THEN trace[k + 1].failed_before ELSE failed_hosts

\* the hosts in the failed lists of the first n tasks run with ignore_errors = false
NonIgnoredFailed(n) ==
    UNION {Range(trace[k].result.failed) :
              k \in {m \in 1..n : trace[m].returned = "Ok" /\ ~tasks[m].ignore_errors}}

TargetOf(task) == IF task.hosts.some THEN Range(task.hosts.list) ELSE Inventory

\* C7: once a host id has entered failed_hosts on a task with ignore_errors =
\* false, it is in the result map of no later task.
C7_FailedHostInNoLaterResult ==
    \A k \in DOMAIN trace : \A j \in DOMAIN trace :
        (k < j /\ ~tasks[k].ignore_errors) =>
            \A h \in FailedAfter(k) \ trace[k].failed_before :
                h \notin DOMAIN trace[j].result.results

\* C8: every fan-out of a task is handed exactly the task's target hosts minus
\* the hosts that were in failed_hosts when the task started, so no worker (no
\* session, no operation) exists for a host that had failed before; a task whose
\* targets had all failed before performs no fan-out at all.
C8_OnlyActiveHostsExecuted ==
    \A k \in DOMAIN trace :
        LET t == trace[k] IN
        /\ Range(t.all_hosts) = TargetOf(tasks[k])
        /\ \A f \in DOMAIN t.fanouts :
               /\ Range(t.fanouts[f]) \cap t.failed_before = {}
               /\ Range(t.fanouts[f]) = TargetOf(tasks[k]) \ t.failed_before
        /\ (TargetOf(tasks[k]) \subseteq t.failed_before) => t.fanouts = <<>>
        /\ (t.returned = "Ok" /\ ~(TargetOf(tasks[k]) \subseteq t.failed_before))
               => t.fanouts # <<>>

\* C8 witness: a task that targets a previously failed host together with a
\* host that is still active, and fans out (a shell task: three times).
C8_Witness ==
    \E k \in DOMAIN trace :
        /\ trace[k].failed_before \cap Range(trace[k].all_hosts) # {}
        /\ Len(trace[k].fanouts) = 3
        /\ Range(trace[k].fanouts[1]) \cap Inventory # {}

\* C9: after each task and at the end, failed_hosts is exactly the set of hosts
\* in the failed list of some executed task with ignore_errors = false; a target
\* host that failed in ignore_errors = true tasks only is an active host of the
\* later tasks and part of their fan-outs.
C9_FailedHostsExact ==
    /\ failed_hosts = NonIgnoredFailed(Len(trace))
    /\ \A k \in DOMAIN trace :
           /\ trace[k].failed_before = NonIgnoredFailed(k - 1)
           /\ FailedAfter(k) = NonIgnoredFailed(k)
           /\ \A h \in TargetOf(tasks[k]) :
                  h \notin NonIgnoredFailed(k - 1) =>
                      /\ h \in Range(trace[k].active_hosts)
                      /\ \A f \in DOMAIN trace[k].fanouts : h \in Range(trace[k].fanouts[f])

\* C9 witness: the playbook returned; a host failed in an ignore_errors task, is
\* executed by a later task and is not in failed_hosts, while another host is.
C9_Witness ==
    /\ ppc = "ok"
    /\ failed_hosts # {}
    /\ \E k \in DOMAIN trace : \E j \in DOMAIN trace : \E h \in Inventory :
           /\ k < j
           /\ tasks[k].ignore_errors
           /\ h \in Range(trace[k].result.failed)
           /\ trace[j].fanouts # <<>>
           /\ h \in Range(trace[j].fanouts[1])
           /\ h \notin failed_hosts

\* C10: if a task with ignore_errors = false returns a result with no
\* successful host, no later task is started, that result is the last entry of
\* task_results and overall_success is false.
C10_HaltOnTotalFailure ==
    \A k \in DOMAIN trace :
        (/\ trace[k].returned = "Ok"
         /\ ~tasks[k].ignore_errors
         /\ trace[k].result.successful = <<>>) =>
            /\ k = Len(trace)
            /\ task_i = k + 1
            /\ ppc \in {"break", "ok"}
            /\ task_results # <<>>
            /\ task_results[Len(task_results)].name = k
            /\ task_results[Len(task_results)].result = trace[k].result
            /\ overall_success = FALSE

\* C10 witness: the playbook returned with tasks left unrun, because every
\* active host of a task with ignore_errors = false failed.
C10_Witness ==
    /\ ppc = "ok"
    /\ trace # <<>>
    /\ Len(trace) < Len(tasks)
    /\ ~tasks[Len(trace)].ignore_errors
    /\ trace[Len(trace)].fanouts # <<>>
    /\ trace[Len(trace)].result.successful = <<>>
    /\ trace[Len(trace)].result.failed # <<>>

\* overall_success after the k-th iteration
OverallAfter(k) == IF k < Len(trace) THEN trace[k + 1].overall_before ELSE overall_success

\* the k-th task of the list was run and had at least one successful host
HadSuccessfulHost(k) ==
    /\ k <= Len(trace)
    /\ trace[k].returned = "Ok"
    /\ trace[k].result.successful # <<>>

\* C11: when execute_playbook returns Ok, overall_success is true exactly when
\* every task of the list with ignore_errors = false had at least one
\* successful host.
C11_OverallSuccessIff ==
    ppc = "ok" =>
        (overall_success <=>
            \A k \in DOMAIN tasks : ~tasks[k].ignore_errors => HadSuccessfulHost(k))

\* C12: no iteration of the task loop that runs a task with ignore_errors =
\* true lowers overall_success, whether every host of the task failed or
\* execute_task returned Err.
C12_IgnoredTaskKeepsOverallSuccess ==
    \A k \in DOMAIN trace :
        tasks[k].ignore_errors => OverallAfter(k) = trace[k].overall_before

\* every host the k-th task targets had failed before it started
AllTargetsFailedBefore(k) ==
    /\ trace[k].skipped_hosts # <<>>
    /\ Range(trace[k].all_hosts) \subseteq trace[k].failed_before

\* C13: a task whose target hosts are all in failed_hosts already performs no
\* fan-out, returns a result holding one synthetic "Host skipped due to
\* previous failure" error per skipped host and nothing else, and when it is
\* not the last task of the list the loop goes on to the next task.
C13_AllSkippedTaskMovesOn ==
    \A k \in DOMAIN trace :
        AllTargetsFailedBefore(k) =>
            /\ trace[k].fanouts = <<>>
            /\ trace[k].returned = "Ok"
            /\ trace[k].result.failed = trace[k].skipped_hosts
            /\ trace[k].result.successful = <<>>
            /\ DOMAIN trace[k].result.results = Range(trace[k].skipped_hosts)
            /\ \A h \in DOMAIN trace[k].result.results :
                   trace[k].result.results[h] = HostSkipped
            /\ (k < Len(tasks) /\ k = Len(trace)) => ppc = "run"

\* C14 as stated: every Err that execute_task returns is returned by
\* execute_playbook, and the task that produced it is the last one run.
C14_TaskErrorEndsPlaybook ==
    \A k \in DOMAIN trace :
        trace[k].returned = "Err" =>
            /\ k = Len(trace)
            /\ ppc = "err"
            /\ playbook_err = trace[k].error

\* C14 amended: an Err that execute_task returns for a task with ignore_errors
\* = false is returned by execute_playbook and no further task is run; for a
\* task with ignore_errors = true the Err is not returned and the loop goes on
\* to the next task.  execute_playbook returns Err in no other case.
C14_NonIgnoredTaskErrorEndsPlaybook ==
    /\ \A k \in DOMAIN trace :
           trace[k].returned = "Err" =>
               IF ~tasks[k].ignore_errors
               THEN /\ k = Len(trace)
                    /\ task_i = k + 1
                    /\ ppc = "err"
                    /\ playbook_err = trace[k].error
               ELSE /\ k = Len(trace) => (ppc \in {"run", "ok"} /\ task_i = k + 1)
                    /\ (k = Len(trace) /\ ppc = "ok") => k = Len(tasks)
    /\ ppc = "err" =>
           /\ trace # <<>>
           /\ trace[Len(trace)].returned = "Err"
           /\ ~tasks[Len(trace)].ignore_errors
    /\ ppc # "err" => playbook_err = NoResult

\* C14 witness: execute_playbook returned the upload error of a task with
\* ignore_errors = false and left a task unrun, after the loop had gone on
\* past a task-level error of a task with ignore_errors = true.
C14_Witness ==
    /\ ppc = "err"
    /\ Len(trace) < Len(tasks)
    /\ playbook_err = ScriptCopyErr
    /\ trace[Len(trace)].fanouts # <<>>
    /\ \E k \in DOMAIN trace : trace[k].returned = "Err" /\ tasks[k].ignore_errors

\* C16: when execute_playbook returns Ok, skipped_hosts is exactly the set of
\* hosts that some task targeted and excluded because they had failed before;
\* a failed host that no later task excluded is not in it.
C16_SkippedHostsWereExcluded ==
    ppc = "ok" =>
        skipped_hosts = UNION {Range(trace[k].skipped_hosts) : k \in DOMAIN trace}

\* the k-th task returned a result map and had previously failed targets
HasSkipped(k) == trace[k].returned = "Ok" /\ trace[k].skipped_hosts # <<>>
SkippedAsEntries(k) ==
    \E h \in Range(trace[k].skipped_hosts) : h \in DOMAIN trace[k].result.results
SkippedOmitted(k) ==
    \E h \in Range(trace[k].skipped_hosts) : h \notin DOMAIN trace[k].result.results

\* C17: within one playbook run the previously failed targets of the tasks are
\* represented one way in the result maps: no task records them as entries
\* while another task omits them.
C17_SkippedHostsOneConvention ==
    \A j \in DOMAIN trace : \A k \in DOMAIN trace :
        (HasSkipped(j) /\ HasSkipped(k)) => ~(SkippedAsEntries(j) /\ SkippedOmitted(k))

\* C15: the tasks are run in list order, one at a time; a fan-out is called
\* only after every worker of the fan-out before it (of the same Shell task or
\* of the task before) has finished, and between tasks and after the return
\* no worker is running.
C15_TasksAndFanOutsInSequence ==
    /\ \A k \in DOMAIN trace : trace[k].task = k
    /\ task_i = Len(trace) + 1
    /\ unfinished = {}
    /\ bpc \in {"idle", "done"} => \A i \in Workers : wpc[i] \in {"none", "finished"}
    /\ ppc \in {"run", "break", "ok", "err"} => bpc \in {"idle", "done"}

\* C15 witness: the first task was a Shell task that ran its three fan-outs,
\* and a worker of the second task holds a permit.
C15_Witness ==
    /\ Len(trace) = 1
    /\ Len(trace[1].fanouts) = 3
    /\ ppc \in {"fanout", "copy", "exec", "cleanup"}
    /\ \E i \in Workers : wpc[i] \in {"session", "operation"}

(***************************************************************************)
(* Claims about copy_file_to_remote_with_options.                          *)
(***************************************************************************)
Done(c) == c \in Range(commands)

\* the digest and the size of the file at remote_path
DestHashInfo == GetRemoteFileHash(remote_fs.dest)

\* the caller gave no precomputed_hash, or the digest of the local file
HashIsOfLocalFile ==
    options.precomputed_hash.some => options.precomputed_hash.hash = Sha256(local_file)

\* C18: in every state of a deployment, whether it is running, has returned,
\* has lost its session or was killed, the file at remote_path is the file that
\* was there when the call began, or a file that was moved there complete after
\* its digest and size had passed the verification (and that file is the local
\* file, unless a precomputed_hash that is not the local file's was given);
\* before the mv it is the file that was there when the call began.
C18_DestOldOrVerifiedNew ==
    /\ ~Done("mv") => remote_fs.dest = dest_before
    /\ \/ remote_fs.dest = dest_before
       \/ /\ Done("verified")
          /\ Done("mv")
          /\ remote_fs.dest.exists
          /\ DestHashInfo = local_hash_info
          /\ HashIsOfLocalFile => remote_fs.dest = File(local_file)

\* C18 witness: the process was killed during the transfer; the staging file
\* holds a proper prefix of a local file that differs from the destination.
C18_Witness ==
    /\ dpc = "dead"
    /\ remote_fs.temp.exists
    /\ Len(remote_fs.temp.data) < Len(local_file)
    /\ remote_fs.temp.data # <<>>
    /\ dest_before.exists
    /\ dest_before # File(local_file)

\* C19 as stated: a call that returns after the verification found a different
\* digest or size returns FileOperationError, has not run the mv, has left the
\* destination as it was, and has left no staging file.
C19_MismatchLeavesNoStaging ==
    (dpc = "returned" /\ Done("mismatch")) =>
        /\ deploy_result = DeployErr("FileOperationError")
        /\ ~Done("mv")
        /\ remote_fs.dest = dest_before
        /\ ~remote_fs.temp.exists

\* C19 amended: such a call returns FileOperationError, has not run the mv and
\* has left the destination as it was; the staging file is gone exactly when
\* the rm -f could be run, which is the case whenever the session is still up.
C19_MismatchRemovesStagingIfSessionUp ==
    (dpc = "returned" /\ Done("mismatch")) =>
        /\ deploy_result = DeployErr("FileOperationError")
        /\ ~Done("mv")
        /\ remote_fs.dest = dest_before
        /\ remote_fs.temp.exists <=> ~Done("rm")
        /\ session = "up" => Done("rm")

\* C19 witness: the staging file had the wrong digest, was removed, and the
\* call returned with the existing destination untouched.
C19_Witness ==
    /\ dpc = "returned"
    /\ Done("mismatch")
    /\ Done("rm")
    /\ dest_before.exists
    /\ dest_before # File(local_file)

\* C20 as stated: after every call that returned Ok, the digest and the size
\* of the file at remote_path are those of the local file.
C20_SuccessMeansDestIsLocal ==
    (dpc = "returned" /\ deploy_result.ok) =>
        /\ remote_fs.dest.exists
        /\ DestHashInfo = HashInfo(Sha256(local_file), Len(local_file))

\* C20 amended: after every call that returned Ok, the file at remote_path has
\* the digest the call took as the local one and the size of the local file;
\* it has the digest of the local file when no precomputed_hash was given or
\* the one given is the digest of the local file.
C20_SuccessMeansDestIsLocalIfHashIs ==
    (dpc = "returned" /\ deploy_result.ok) =>
        /\ remote_fs.dest.exists
        /\ DestHashInfo = local_hash_info
        /\ DestHashInfo.size = Len(local_file)
        /\ HashIsOfLocalFile =>
               DestHashInfo = HashInfo(Sha256(local_file), Len(local_file))

\* C20 witness: a call given the digest of the local file as precomputed_hash
\* replaced a different destination and returned Ok.
C20_Witness ==
    /\ dpc = "returned"
    /\ deploy_result.ok
    /\ deploy_result.bytes_transferred > 0
    /\ options.precomputed_hash.some
    /\ dest_before.exists
    /\ dest_before # File(local_file)
    /\ remote_fs.dest = File(local_file)

(***************************************************************************)
(* Claims about the Shell task.                                            *)
(***************************************************************************)
\* the copy fan-out of a Shell task has returned with no successful host
UploadFailedEverywhere ==
    /\ ppc = "copy"
    /\ bpc = "done"
    /\ result.successful = <<>>

\* C26: when the script upload of a Shell task has failed on every active
\* host, the next step of execute_task is to return FileOperationError
\* ("Failed to copy script to remote hosts"): the task has made the copy
\* fan-out only, and no other fan-out (execute, cleanup) is begun.
C26_UploadFailedEverywhereReturnsErr ==
    [][(UploadFailedEverywhere /\ ppc' # ppc) =>
           /\ Len(trace') = Len(trace) + 1
           /\ trace'[Len(trace')].returned = "Err"
           /\ trace'[Len(trace')].error = ScriptCopyErr
           /\ trace'[Len(trace')].fanouts = <<host_names>>
           /\ ppc' \in {"err", "run"}
           /\ UNCHANGED bvars]_vars

\* C26 witness: the upload was tried on three hosts and failed on each (a
\* session or operation error on the known ones), and the task returned the
\* error after that single fan-out.
C26_Witness ==
    /\ Len(trace) = 1
    /\ trace[1].error = ScriptCopyErr
    /\ trace[1].fanouts = <<host_names>>
    /\ Len(host_names) = 3
    /\ bpc = "done"
    /\ \E i \in Workers : wpc[i] = "finished"

(***************************************************************************)
(* Claims about repeated calls of copy_file_to_remote_with_options.        *)
(***************************************************************************)
SecondCall == earlier_calls # <<>>

\* the commands of the transfer path: none of them is run on the skip path
TransferCommands == {"mkdir", "backup", "scp_send", "missing", "verified", "mismatch",
                     "rm", "mv", "mv failed"}

\* C21 as stated: a second call with the same inputs, made right after the
\* first returned, returns bytes_transferred = 0 when it returns Ok and creates
\* no staging file, whatever the first call returned.
C21_SecondCallTransfersNothing ==
    SecondCall =>
        /\ ~Done("scp_send")
        /\ (dpc = "returned" /\ deploy_result.ok) => deploy_result.bytes_transferred = 0

\* C21 amended: after a first call that returned Ok, a second call with the
\* same inputs finds the destination unchanged: it runs no command of the
\* transfer path (no mkdir, backup, staging file, verification, rm or mv),
\* leaves the remote files as they are, and returns bytes_transferred = 0
\* when it returns Ok.
C21_SecondCallAfterSuccessTransfersNothing ==
    (SecondCall /\ earlier_calls[1].ok) =>
        /\ Range(commands) \cap TransferCommands = {}
        /\ dpc \in {"hash_local", "probe", "skip_attrs", "skip_owner", "returned", "dead"}
        /\ remote_fs.dest = dest_before
        /\ ~remote_fs.temp.exists
        /\ (dpc = "returned" /\ deploy_result.ok) => deploy_result.bytes_transferred = 0

\* C21 witness: the first call transferred a non-empty file and returned Ok,
\* the second call returned Ok as well.
C21_Witness ==
    /\ SecondCall
    /\ earlier_calls[1].ok
    /\ earlier_calls[1].bytes_transferred > 0
    /\ dpc = "returned"
    /\ deploy_result.ok
    /\ Done("hash dest")

(***************************************************************************)
(* Claims about deploy_template.                                           *)
(***************************************************************************)
TDone(c) == c \in Range(template_commands)

\* C22: after a first call of deploy_template that returned Ok, a second call
\* with the same inputs only looks at dest (test -f, cat): it runs no backup,
\* upload, rm, mkdir, mv or attribute command, leaves the remote files as they
\* are, and returns changed = false when it returns Ok.
C22_SecondTemplateCallWritesNothing ==
    (SecondCall /\ earlier_calls[1].ok) =>
        /\ Range(template_commands) \subseteq {"test -f", "cat"}
        /\ template_remote.dest = template_dest_before
        /\ (tpc = "returned" /\ template_result.ok) => ~template_result.changed

\* C23 as stated: a call that returned ValidationError has left dest as it was
\* and no file at temp_path.
C23_InvalidLeavesDestAndNoStaging ==
    (tpc = "returned" /\ template_result = TemplateErr("ValidationError")) =>
        /\ template_remote.dest = template_dest_before
        /\ ~template_remote.temp_path.exists

\* C23 amended: a call whose validate command exited non-zero returns
\* ValidationError and has left dest as it was; the file at temp_path is gone
\* when the rm -f could be run, which is the case whenever the session is
\* still up, and the local temp file is removed.
C23_InvalidLeavesDestAndNoStagingIfSessionUp ==
    (tpc = "returned" /\ TDone("invalid")) =>
        /\ template_result = TemplateErr("ValidationError")
        /\ ~TDone("mv")
        /\ template_remote.dest = template_dest_before
        /\ TDone("rm") => ~template_remote.temp_path.exists
        /\ template_session = "up" => TDone("rm")
        /\ ~local_temp.exists

\* C23 witness: the validate command rejected the uploaded text, the file at
\* temp_path was removed and the call returned with the existing dest untouched.
C23_Witness ==
    /\ tpc = "returned"
    /\ TDone("invalid")
    /\ TDone("rm")
    /\ template_dest_before.exists
    /\ template_dest_before # File(rendered_content)

\* C24: after every call of deploy_template that returned Ok with changed =
\* true, the content of dest is the rendered text.
C24_ChangedDestIsRenderedText ==
    (tpc = "returned" /\ template_result.ok /\ template_result.changed) =>
        template_remote.dest = File(rendered_content)

(***************************************************************************)
(* Claims about generate_temp_suffix and the temp file names.              *)
(***************************************************************************)
UsesLocalTemp(w) == temp_worker[w].pc \in {"upload", "copy", "mv", "cleanup"}
UsesStaging(w) == temp_worker[w].pc \in {"copy", "mv", "verify"}

\* C25: at any moment of a batch, two workers that both have a local temp
\* file in use have different local temp paths, two workers on one host that
\* both have a staging file in use have different staging paths, and the temp
\* files a worker has in use exist (no other worker has removed them).
C25_TempPathsNotShared ==
    /\ \A w, v \in DOMAIN temp_worker :
           w # v =>
               /\ (UsesLocalTemp(w) /\ UsesLocalTemp(v)) =>
                      temp_worker[w].local_temp # temp_worker[v].local_temp
               /\ (UsesStaging(w) /\ UsesStaging(v) /\ worker_host[w] = worker_host[v]) =>
                      temp_worker[w].temp_path # temp_worker[v].temp_path
    /\ \A w \in DOMAIN temp_worker :
           /\ UsesLocalTemp(w) => temp_worker[w].local_temp \in local_files
           /\ UsesStaging(w) => Staging(w) \in remote_files

\* C30: the values returned by successive calls of generate_temp_suffix are
\* pairwise distinct, whatever the clock reads and whatever is drawn.
C30_SuffixesPairwiseDistinct ==
    \A i, j \in DOMAIN suffixes : i # j => suffixes[i] # suffixes[j]

(***************************************************************************)
(* Claims about manage_user                                                *)
(***************************************************************************)
\* the call under way repeats a call that created the user and returned success
RepeatsCreation ==
    /\ earlier_calls # <<>>
    /\ user_options.state = "present"
    /\ ~user_options.group.some /\ ~user_options.groups.some
    /\ ~earlier_calls[1].before.exists
    /\ earlier_calls[1].result = UserOk(TRUE)

\* C27: after a call with state present, no group and no groups has created the
\* user and returned success, the identical call repeated right after runs neither
\* useradd nor usermod and, when it returns success, returns changed = false
C27_RepeatAfterCreationChangesNothing ==
    RepeatsCreation =>
        /\ "useradd" \notin Range(user_commands)
        /\ "usermod" \notin Range(user_commands)
        /\ upc = "returned" /\ user_result.ok => ~user_result.changed

(***************************************************************************)
(* Claims about SshClient::new                                             *)
(***************************************************************************)
\* the outcome of a connect_once that failed in authentication: the server
\* rejected the credentials, or the config has neither key nor password
AuthenticationFailure(e) ==
    \/ e.kind = "AuthenticationError"
    \/ e.kind = "Ssh2Error" /\ e.message \in {"userauth_pubkey_file", "userauth_password"}

\* C28: SshClient::new makes at most 3 attempts; an attempt that succeeds is the
\* last one and the call returns its session; after 3 failed attempts the call
\* returns the error of the third; it returns in no other case
C28_AtMostThreeAttemptsFirstSuccessOrLastError ==
    /\ Len(attempts) <= 3
    /\ \A k \in DOMAIN attempts :
           attempts[k].ok =>
               k = Len(attempts) /\ cpc = "returned" /\ connect_result = Connected
    /\ Len(attempts) = 3 /\ ~attempts[3].ok =>
           cpc = "returned" /\ connect_result = attempts[3]
    /\ cpc = "returned" => attempts # <<>> /\ (attempts[Len(attempts)].ok \/ Len(attempts) = 3)

C28_Witness ==
    /\ cpc = "returned"
    /\ Len(attempts) = 3
    /\ ~attempts[1].ok /\ ~attempts[2].ok /\ ~attempts[3].ok
    /\ attempts[2] # attempts[3]
    /\ connect_result = attempts[3]
    /\ slept = <<1000, 2000>>

\* C29: an attempt that fails in authentication is the last attempt, and the call
\* returns its error
C29_AuthenticationFailureNotRetried ==
    \A k \in DOMAIN attempts :
        AuthenticationFailure(attempts[k]) =>
            k = Len(attempts) /\ cpc = "returned" /\ connect_result = attempts[k]

\* the commands of the call that change the account database
AccountCommands == SelectSeq(user_commands, LAMBDA c : c \in {"useradd", "usermod", "userdel"})

\* drift as the specification states it, on the entry the call found
Drift(entry, o) ==
    \/ o.uid.some /\ entry.uid # o.uid.v
    \/ o.home.some /\ entry.home # o.home.v
    \/ o.shell.some /\ entry.shell # o.shell.v
    \/ o.comment.some /\ entry.comment # o.comment.v
    \/ o.group.some
    \/ o.groups.some

\* C36: a call of manage_user issues at most one of useradd, usermod, userdel:
\* useradd only for state present on an absent user, usermod only for state
\* present on an existing user with drift, userdel only for state absent on an
\* existing user; a call that issued none and returned success has changed = false
C36_AtMostOneMatchingAccountCommand ==
    /\ Len(AccountCommands) <= 1
    /\ "useradd" \in Range(user_commands) =>
           user_options.state = "present" /\ ~user_before.exists
    /\ "usermod" \in Range(user_commands) =>
           /\ user_options.state = "present"
           /\ user_before.exists
           /\ Drift(user_before, user_options)
    /\ "userdel" \in Range(user_commands) =>
           user_options.state = "absent" /\ user_before.exists
    /\ upc = "returned" /\ user_result.ok /\ AccountCommands = <<>> => ~user_result.changed

C36_Witness ==
    /\ upc = "returned"
    /\ user_result = UserOk(TRUE)
    /\ AccountCommands = <<"usermod">>
    /\ user_options.group.some
    /\ ~CheckUserNeedsUpdate(user_before, [user_options EXCEPT !.group = None])

\* C40: when a call with state present on a user that did not exist returns an
\* error, the user does not exist afterwards
C40_FailedCreationLeavesNoAccount ==
    /\ upc = "returned"
    /\ user_options.state = "present"
    /\ ~user_before.exists
    /\ ~user_result.ok
    => ~passwd.exists

(***************************************************************************)
(* Claims about the attributes on the skip path of                         *)
(* copy_file_to_remote_with_options.                                       *)
(***************************************************************************)
\* the commands apply_file_attributes has to run for the options
RequestedAttributeCommands ==
    (IF options.mode THEN <<"chmod">> ELSE <<>>)
        \o (IF options.owner /\ options.group THEN <<"chown owner:group">>
            ELSE IF options.owner THEN <<"chown owner">>
            ELSE IF options.group THEN <<"chgrp">>
            ELSE <<>>)

IsPrefix(a, b) == Len(a) <= Len(b) /\ a = SubSeq(b, 1, Len(a))

\* what the skip path does: the probe of dest, then the requested attribute
\* commands in order, none of the transfer path; success with 0 bytes after all
\* of them
SkipsTransfer ==
    /\ Range(commands) \cap TransferCommands = {}
    /\ remote_fs = [dest |-> dest_before, temp |-> Absent, bak |-> Absent]
    /\ IsPrefix(commands, <<"hash dest">> \o RequestedAttributeCommands)
    /\ dpc = "returned" /\ deploy_result.ok =>
           /\ commands = <<"hash dest">> \o RequestedAttributeCommands
           /\ deploy_result.bytes_transferred = 0

\* C32 as stated: when dest has the digest and the size of the local file, the
\* call runs no mkdir, backup, upload or mv, runs the attribute commands the
\* options ask for and returns bytes_transferred = 0
C32_SameDestSkipsTransfer ==
    (/\ dpc # "idle"
     /\ dest_before.exists
     /\ GetRemoteFileHash(dest_before) = HashInfo(Sha256(local_file), Len(local_file)))
    => SkipsTransfer

\* C32 amended: the same when dest has the size of the local file and the digest
\* the call takes as the local one: options.precomputed_hash if given, else the
\* digest of the local file
C32_DestOfTakenDigestSkipsTransfer ==
    (/\ dpc # "idle"
     /\ dest_before.exists
     /\ GetRemoteFileHash(dest_before) =
            HashInfo(IF options.precomputed_hash.some THEN options.precomputed_hash.hash
                                                      ELSE Sha256(local_file),
                     Len(local_file)))
    => SkipsTransfer

\* C32 witness: an unchanged dest, owner and group set, backup and create_dirs
\* set: the call ran the probe and the chown and returned 0 bytes
C32_Witness ==
    /\ dpc = "returned"
    /\ deploy_result = DeployOk(0)
    /\ dest_before = File(local_file)
    /\ local_file # <<>>
    /\ options.backup /\ options.create_dirs
    /\ options.owner /\ options.group /\ ~options.mode
    /\ commands = <<"hash dest", "chown owner:group">>

(***************************************************************************)
(* Claims about the staging file of copy_file_to_remote_with_options on    *)
(* the error paths.                                                        *)
(***************************************************************************)
\* C33: when the call returns an error after scp_send created the staging file
\* and the session is up, no staging file remains
C33_ErrorLeavesNoStagingIfSessionUp ==
    (/\ dpc = "returned"
     /\ ~deploy_result.ok
     /\ Done("scp_send")
     /\ session = "up")
    => ~remote_fs.temp.exists

(***************************************************************************)
(* Claims about the temp files of deploy_template.                         *)
(***************************************************************************)
\* C34: when deploy_template has returned, with success or with an error, the
\* local temp file it wrote does not exist and no file is left at temp_path
C34_ReturnLeavesNoTempFiles ==
    tpc = "returned" =>
        /\ ~local_temp.exists
        /\ ~template_remote.temp_path.exists

(***************************************************************************)
(* Claims about the script files of the Shell task.                        *)
(***************************************************************************)
\* the Shell tasks that have finished, with a result or with an error
FinishedShellTasks == {trace[k].task : k \in {j \in DOMAIN trace : tasks[trace[j].task].task_type = "shell"}}

\* C35: after a Shell task has finished, its local temp script file does not
\* exist and its remote script file exists on no host
C35_FinishedShellTaskLeavesNoScript ==
    \A t \in FinishedShellTasks :
        /\ t \notin script_files
        /\ \A h \in HostIds : <<t, h>> \notin remote_scripts

\* C39: when a Shell task whose copy fan-out succeeded on some but not on all
\* active hosts has returned its result, the script was run only on hosts where
\* the copy succeeded and every host where the copy failed is in the failed list
\* of the result
C39_ScriptRunsWhereUploadedOthersFailed ==
    \A k \in DOMAIN trace :
        LET t == trace[k].task IN
        (/\ t \in DOMAIN copy_results
         /\ trace[k].returned = "Ok"
         /\ copy_results[t].failed # <<>>)
        => /\ \A h \in HostIds :
                  <<t, h>> \in script_ran => h \in Range(copy_results[t].successful)
           /\ Range(copy_results[t].failed) \subseteq Range(trace[k].result.failed)

(***************************************************************************)
(* Claims about success_rate and about the permits.                        *)
(***************************************************************************)
\* C31: at every moment of a batch, success_rate is |successful| / |results|, 0
\* when results is empty, and is at most 1: |successful| <= |results|
C31_SuccessRateAtMostOne ==
    /\ DOMAIN result.results = {} => SuccessRate(result) = <<0, 1>>
    /\ DOMAIN result.results # {} =>
           SuccessRate(result) = <<Len(result.successful), Cardinality(DOMAIN result.results)>>
    /\ SuccessRate(result)[1] <= SuccessRate(result)[2]
    /\ Len(result.successful) <= Cardinality(DOMAIN result.results)

\* C37: for every host list and every max_concurrent_connections,
\* execute_concurrent_operation eventually returns
C37_BatchEventuallyReturns == <>(bpc = "done")

(***************************************************************************)
(* Claims about remote commands that end with a non-zero exit status.      *)
(***************************************************************************)
\* the Ok values of a command that ended with a non-zero status and of a ping
\* that yielded false
Unsuccessful == {ExecuteCommand(1), Ping(ExecuteCommand(1))}

\* failed_hosts after the k-th call of execute_task
FailedAfterCall(k) ==
    IF k + 1 \in DOMAIN trace THEN trace[k + 1].failed_before ELSE failed_hosts

====
